---- MODULE Spec2Model ----
(***************************************************************************)
(* dsadmin: the interactive query builder (src/src/QueryBuilderPage.tsx)   *)
(* and the join resolver of the query page (src/unnamed/part_000).         *)
(*                                                                         *)
(* A JavaScript string is modelled as a sequence of one-character strings, *)
(* so that trimming, splitting, escaping and concatenation are computed    *)
(* the way the code computes them.  "abc" is <<"a","b","c">>.              *)
(***************************************************************************)
EXTENDS Integers, Sequences, FiniteSets, TLC

VARIABLES
    kinds,            \* useKinds(namespace).data: Undefined or the list of kinds
    kind,             \* React state `kind`
    fields,           \* useKindFields(kind).data: Undefined or the kind's schema
    whereClauses,     \* React state `whereClauses`
    orderField,       \* React state `orderField`
    orderDirection,   \* React state `orderDirection`
    aggregation,      \* React state `aggregation`
    aggregationField, \* React state `aggregationField`
    builtQueries,     \* React state `builtQueries`: the queries handed to useGQLQueries
    queryError,       \* React state `queryError`
    now,              \* the clock read by Date.now()
    queryResults,     \* useGQLQuery(currentQuery).data of the query page
    joinProperty,     \* React state `joinProperty` of the query page
    lookupKeys,       \* the key list last handed to useLookupEntities
    joinedEntities,   \* useLookupEntities(keysToJoin).data
    error,            \* useGQLQuery(currentQuery).error of the query page
    lookupError,      \* the failure of the lookup, held by useLookupEntities
    lookupCalls,      \* how many requests went to lookupByKeys so far
    call,             \* which function was applied to the drawn inputs, if any
    argument,         \* the value and context drawn for valueToEditValue
    returned,         \* what that function returned or threw
    queries,          \* useQueryHistory's `queries`, as written to localStorage "queryHistory"
    draftQuery,       \* localStorage "draftQuery": absent or a text
    query,            \* React state `query` of the query page: the textarea's text
    currentQuery,     \* the `q` of the page's URL: the query that was run
    lastEdit,         \* history: the text of the latest textarea edit since Run Query, if any
    lastStored        \* history: the query last handed to storeQuery and not blank, if any

vars == <<kinds, kind, fields, whereClauses, orderField, orderDirection,
          aggregation, aggregationField, builtQueries, queryError, now,
          queryResults, joinProperty, lookupKeys, joinedEntities, error,
          lookupError, lookupCalls, call, argument, returned,
         queries, draftQuery, query, currentQuery, lastEdit, lastStored>>

builderVars == <<kinds, kind, fields, whereClauses, orderField, orderDirection,
                 aggregation, aggregationField, builtQueries, queryError, now>>

joinVars == <<queryResults, joinProperty, lookupKeys, joinedEntities, error,
              lookupError, lookupCalls>>

callVars == <<call, argument, returned>>
pageVars == <<queries, draftQuery, query, currentQuery, lastEdit, lastStored>>

(***************************************************************************)
(* Strings                                                                 *)
(***************************************************************************)
EmptyString == <<>>

\* The white space the model's inputs use, out of what String.prototype.trim strips.
WhiteSpace == {" ", "\t", "\n"}

Digits == {"0", "1", "2", "3", "4", "5", "6", "7", "8", "9"}

UpperCase == <<"A","B","C","D","E","F","G","H","I","J","K","L","M",
               "N","O","P","Q","R","S","T","U","V","W","X","Y","Z">>

LowerCase == <<"a","b","c","d","e","f","g","h","i","j","k","l","m",
               "n","o","p","q","r","s","t","u","v","w","x","y","z">>

Min(S) == CHOOSE x \in S : \A y \in S : x <= y
Max(S) == CHOOSE x \in S : \A y \in S : x >= y

\* The positions of s that hold no white space
inked(s) == {i \in 1..Len(s) : s[i] \notin WhiteSpace}

\* String.prototype.trimStart
trimStart(s) ==
    IF inked(s) = {} THEN <<>> ELSE SubSeq(s, Min(inked(s)), Len(s))

\* String.prototype.trim
trim(s) ==
    IF inked(s) = {} THEN <<>> ELSE SubSeq(s, Min(inked(s)), Max(inked(s)))

\* String.prototype.toLowerCase, one character
toLowerChar(c) ==
    IF \E i \in 1..26 : UpperCase[i] = c
    THEN LowerCase[CHOOSE i \in 1..26 : UpperCase[i] = c]
    ELSE c

\* String.prototype.toLowerCase
toLowerCase(s) == [i \in 1..Len(s) |-> toLowerChar(s[i])]

\* String.prototype.split(sep) for a one-character separator: the pieces
\* between separators, in order; "" splits into the one piece "".
split(s, sep) ==
    LET seps == {i \in 1..Len(s) : s[i] = sep}
        n == Cardinality(seps) + 1
        \* where the k-th separator is; 0 and Len(s) + 1 bracket the string
        at(k) == IF k = 0 THEN 0
                 ELSE IF k = n THEN Len(s) + 1
                 ELSE CHOOSE i \in seps : Cardinality({j \in seps : j < i}) = k - 1
    IN  [k \in 1..n |-> SubSeq(s, at(k - 1) + 1, at(k) - 1)]

\* pieces[lo] sep pieces[lo + 1] sep ... pieces[hi]
RECURSIVE joinRange(_, _, _, _)
joinRange(pieces, sep, lo, hi) ==
    IF lo > hi THEN <<>>
    ELSE IF lo = hi THEN pieces[lo]
    ELSE LET mid == (lo + hi) \div 2
         IN  joinRange(pieces, sep, lo, mid) \o sep
             \o joinRange(pieces, sep, mid + 1, hi)

\* Array.prototype.join
join(pieces, sep) == joinRange(pieces, sep, 1, Len(pieces))

\* pieces.map((piece) => piece.trim())
trimEach(pieces) == [i \in 1..Len(pieces) |-> trim(pieces[i])]

\* s.replace(/c/g, "\\c") for each character c of `special`, the backslash
\* among them and replaced first: each special character gets a backslash
\* before it.
escapeChars(s, special) ==
    join([i \in 1..Len(s) |->
            IF s[i] \in special THEN <<"\\", s[i]>> ELSE <<s[i]>>], <<>>)

\* escapeString with the two replacements in the other order: the
\* backslashes put before the quotes are doubled as well
escapeStringQuotesFirst(value) ==
    escapeChars(escapeChars(value, {"'"}), {"\\"})

\* function escapeString(value)
escapeString(value) == escapeChars(value, {"\\", "'"})

\* function escapeDoubleQuoted(value)
escapeDoubleQuoted(value) == escapeChars(value, {"\\", "\""})

\* /^-?\d+$/.test(s)
isIntegerText(s) ==
    LET body == IF s # <<>> /\ Head(s) = "-" THEN Tail(s) ELSE s
    IN  body # <<>> /\ \A i \in 1..Len(body) : body[i] \in Digits

\* /^key\s*\(/i.test(s)
isKeyLiteral(s) ==
    /\ Len(s) >= 4
    /\ toLowerCase(SubSeq(s, 1, 3)) = <<"k", "e", "y">>
    /\ LET rest == trimStart(SubSeq(s, 4, Len(s)))
       IN  rest # <<>> /\ Head(rest) = "("

(***************************************************************************)
(* Number(text) and String(number), for decimal literals without an        *)
(* exponent (the model's inputs hold no exponent, hexadecimal or Infinity  *)
(* text, and stay within the digits a double holds exactly).  A number is  *)
(* [finite |-> BOOLEAN, text |-> String(number)].                          *)
(***************************************************************************)
NaN == [finite |-> FALSE, text |-> <<"N", "a", "N">>]

\* The positions of s that hold no "0"
nonZero(s) == {i \in 1..Len(s) : s[i] # "0"}

stripLeadingZeros(s) ==
    IF nonZero(s) = {} THEN <<>> ELSE SubSeq(s, Min(nonZero(s)), Len(s))

stripTrailingZeros(s) ==
    IF nonZero(s) = {} THEN <<>> ELSE SubSeq(s, 1, Max(nonZero(s)))

allDigits(s) == \A i \in 1..Len(s) : s[i] \in Digits

\* String(number) of the number with this sign, whole part and fraction,
\* the whole part without its leading and the fraction without its trailing
\* zeros: "-0" prints as "0".
numberText(negative, w, f) ==
    IF w = <<>> /\ f = <<>> THEN <<"0">>
    ELSE (IF negative THEN <<"-">> ELSE <<>>)
         \o (IF w = <<>> THEN <<"0">> ELSE w)
         \o (IF f = <<>> THEN <<>> ELSE <<".">> \o f)

\* The number written as the digits `parts` around at most one "."
numberOfParts(negative, parts) ==
    IF /\ Len(parts) <= 2
       /\ \A k \in 1..Len(parts) : allDigits(parts[k])
       /\ \E k \in 1..Len(parts) : parts[k] # <<>>
    THEN [finite |-> TRUE,
          text |-> numberText(negative, stripLeadingZeros(parts[1]),
                      IF Len(parts) = 2 THEN stripTrailingZeros(parts[2])
                      ELSE <<>>)]
    ELSE NaN

\* Number(t) of a string without white space around it; "" is 0
numberOfTrimmed(t) ==
    IF t = <<>> THEN [finite |-> TRUE, text |-> <<"0">>]
    ELSE numberOfParts(Head(t) = "-",
            split(IF Head(t) \in {"-", "+"} THEN Tail(t) ELSE t, "."))

\* Number(raw) of a string
Number(raw) == numberOfTrimmed(trim(raw))

(***************************************************************************)
(* The literal builder.  A function that may throw returns                 *)
(* [ok |-> TRUE, value |-> v] or [ok |-> FALSE, error |-> message].        *)
(***************************************************************************)
Ok(v) == [ok |-> TRUE, value |-> v, error |-> <<>>]
Throw(message) == [ok |-> FALSE, value |-> <<>>, error |-> message]

\* type ValueType
ValueType == {"string", "integer", "double", "boolean", "null", "timestamp",
              "key", "blob", "geoPoint", "array", "entity", "raw"}

\* type WhereOperator
WhereOperator == {"=", "!=", ">", ">=", "<", "<=", "IN", "HAS ANCESTOR"}

\* `${clause.operator}`: the operator's text in a query
operatorText(operator) ==
    CASE operator = "="  -> <<"=">>
      [] operator = "!=" -> <<"!", "=">>
      [] operator = ">"  -> <<">">>
      [] operator = ">=" -> <<">", "=">>
      [] operator = "<"  -> <<"<">>
      [] operator = "<=" -> <<"<", "=">>
      [] operator = "IN" -> <<"I", "N">>
      [] operator = "HAS ANCESTOR" ->
            <<"H","A","S"," ","A","N","C","E","S","T","O","R">>

\* type SortDirection
SortDirection == {"ASC", "DESC"}

directionText(direction) ==
    IF direction = "ASC" THEN <<"A", "S", "C">> ELSE <<"D", "E", "S", "C">>

\* The error messages of parseWhereValue, around the clause's field.
errInteger(field) ==
    <<"I","n","t","e","g","e","r"," ","f","i","e","l","d"," ","\"">> \o field
    \o <<"\""," ","h","a","s"," ","a","n"," ","i","n","v","a","l","i","d"," ",
         "i","n","t","e","g","e","r"," ","v","a","l","u","e",".">>

errDouble(field) ==
    <<"D","o","u","b","l","e"," ","f","i","e","l","d"," ","\"">> \o field
    \o <<"\""," ","h","a","s"," ","a","n"," ","i","n","v","a","l","i","d"," ",
         "n","u","m","b","e","r",".">>

errBoolean(field) ==
    <<"B","o","o","l","e","a","n"," ","f","i","e","l","d"," ","\"">> \o field
    \o <<"\""," ","m","u","s","t"," ","b","e"," ","t","r","u","e"," ","o","r"," ",
         "f","a","l","s","e",".">>

errTimestamp(field) ==
    <<"T","i","m","e","s","t","a","m","p"," ","f","i","e","l","d"," ","\"">> \o field
    \o <<"\""," ","r","e","q","u","i","r","e","s"," ","a"," ","v","a","l","u","e",".">>

errKey(field) ==
    <<"K","e","y"," ","f","i","e","l","d"," ","\"">> \o field
    \o <<"\""," ","m","u","s","t"," ","u","s","e"," ","a"," ","K","E","Y","(",".",".",".",")",
         " ","l","i","t","e","r","a","l",".">>

errBlob(field) ==
    <<"B","l","o","b"," ","f","i","e","l","d"," ","\"">> \o field
    \o <<"\""," ","r","e","q","u","i","r","e","s"," ","a"," ","b","a","s","e","6","4"," ",
         "v","a","l","u","e",".">>

\* The geoPoint message with the fault of not holding the field
errGeoPointUnnamed(field) ==
    <<"G","e","o","P","o","i","n","t"," ","f","i","e","l","d"," ","m","u","s","t"," ","b","e"," ","i","n"," ","\"","l","a","t",",","l","n","g","\""," ","f","o","r","m","a","t",".">>

errGeoPoint(field) ==
    <<"G","e","o","P","o","i","n","t"," ","f","i","e","l","d"," ","\"">> \o field
    \o <<"\""," ","m","u","s","t"," ","b","e"," ","i","n"," ","\"","l","a","t",",","l","n","g","\"",
         " ","f","o","r","m","a","t",".">>

errLiteral(field) ==
    <<"F","i","e","l","d"," ","\"">> \o field
    \o <<"\""," ","r","e","q","u","i","r","e","s"," ","a"," ","l","i","t","e","r","a","l"," ",
         "v","a","l","u","e",".">>

errInNull(field) ==
    <<"I","N"," ","d","o","e","s"," ","n","o","t"," ","s","u","p","p","o","r","t"," ",
      "N","U","L","L"," ","t","y","p","e"," ","f","o","r"," ","\"">> \o field
    \o <<"\"","."," ","U","s","e"," ","R","a","w"," ","t","y","p","e"," ",
         "i","n","s","t","e","a","d",".">>

errInEmpty(field) ==
    <<"I","N"," ","f","i","l","t","e","r"," ","f","o","r"," ","\"">> \o field
    \o <<"\""," ","r","e","q","u","i","r","e","s"," ","c","o","m","m","a","-",
         "s","e","p","a","r","a","t","e","d"," ","v","a","l","u","e","s",".">>

\* "Too many IN combinations. Reduce the number of IN values."
errTooMany ==
    <<"T","o","o"," ","m","a","n","y"," ","I","N"," ","c","o","m","b","i","n","a","t","i","o","n","s",".",
      " ","R","e","d","u","c","e"," ","t","h","e"," ","n","u","m","b","e","r"," ","o","f"," ",
      "I","N"," ","v","a","l","u","e","s",".">>

\* "Choose a table (kind) first."
errNoKind ==
    <<"C","h","o","o","s","e"," ","a"," ","t","a","b","l","e"," ","(","k","i","n","d",")",
      " ","f","i","r","s","t",".">>

\* parseWhereValue, declared type double: String(parsed) of a finite number
doubleLiteral(field, parsed) ==
    IF ~parsed.finite THEN Throw(errDouble(field)) ELSE Ok(parsed.text)

\* parseWhereValue, declared type boolean
booleanLiteral(field, normalized) ==
    IF normalized # <<"t","r","u","e">> /\ normalized # <<"f","a","l","s","e">>
    THEN Throw(errBoolean(field))
    ELSE Ok(normalized)

\* parseWhereValue, declared type geoPoint: GEOPT(latitude, longitude)
geoPointText(field, latitude, longitude) ==
    IF ~latitude.finite \/ ~longitude.finite
    THEN Throw(errGeoPoint(field))
    ELSE Ok(<<"G","E","O","P","T","(">> \o latitude.text
            \o <<",", " ">> \o longitude.text \o <<")">>)

\* geoPointLiteral with the fault of reading a missing longitude as ""
geoPointLiteralOfOne(field, pieces) ==
    geoPointText(field, Number(pieces[1]),
                 IF Len(pieces) >= 2 THEN Number(pieces[2]) ELSE Number(<<>>))

\* parseWhereValue, declared type geoPoint: [latRaw, lngRaw] are the first
\* two pieces; lngRaw is undefined when there is no comma, and
\* Number(undefined) is NaN
geoPointLiteral(field, pieces) ==
    geoPointText(field, Number(pieces[1]),
                 IF Len(pieces) >= 2 THEN Number(pieces[2]) ELSE NaN)

\* parseWhereValue once clause.value.trim() is known
parseTrimmed(clause, trimmedValue) ==
    CASE clause.valueType = "string" ->
            Ok(<<"'">> \o escapeString(clause.value) \o <<"'">>)
      [] clause.valueType = "integer" ->
            IF ~isIntegerText(trimmedValue)
            THEN Throw(errInteger(clause.field))
            ELSE Ok(trimmedValue)
      [] clause.valueType = "double" ->
            doubleLiteral(clause.field, Number(trimmedValue))
      [] clause.valueType = "boolean" ->
            booleanLiteral(clause.field, toLowerCase(trimmedValue))
      [] clause.valueType = "null" -> Ok(<<"N","U","L","L">>)
      [] clause.valueType = "timestamp" ->
            IF trimmedValue = <<>>
            THEN Throw(errTimestamp(clause.field))
            ELSE Ok(<<"D","A","T","E","T","I","M","E","(","\"">>
                    \o escapeDoubleQuoted(trimmedValue) \o <<"\"",")">>)
      [] clause.valueType = "key" ->
            IF ~isKeyLiteral(trimmedValue)
            THEN Throw(errKey(clause.field))
            ELSE Ok(trimmedValue)
      [] clause.valueType = "blob" ->
            IF trimmedValue = <<>>
            THEN Throw(errBlob(clause.field))
            ELSE Ok(<<"B","L","O","B","(","\"">>
                    \o escapeDoubleQuoted(trimmedValue) \o <<"\"",")">>)
      [] clause.valueType = "geoPoint" ->
            geoPointLiteral(clause.field, trimEach(split(trimmedValue, ",")))
      [] clause.valueType \in {"array", "entity", "raw"} ->
            IF trimmedValue = <<>>
            THEN Throw(errLiteral(clause.field))
            ELSE Ok(trimmedValue)
      [] OTHER -> Ok(trimmedValue)

\* function parseWhereValue(clause)
parseWhereValue(clause) == parseTrimmed(clause, trim(clause.value))

\* splitInValues with the fault of dropping the empty pieces before
\* trimming them
splitInValuesDroppingFirst(value) ==
    trimEach(SelectSeq(split(value, ","), LAMBDA v : Len(v) > 0))

\* function splitInValues(value)
splitInValues(value) ==
    SelectSeq(trimEach(split(value, ",")), LAMBDA v : Len(v) > 0)

\* The first element of `results` that threw, or 0: Array.prototype.map
\* stops at the first callback that throws.
firstFailure(results) ==
    IF \A i \in 1..Len(results) : results[i].ok THEN 0
    ELSE Min({i \in 1..Len(results) : ~results[i].ok})

\* The values of results that all returned
valuesOf(results) == [i \in 1..Len(results) |-> results[i].value]

\* What Array.prototype.map gives when its callback may throw: the first
\* failure, or the values
mapped(results) ==
    IF firstFailure(results) # 0 THEN results[firstFailure(results)]
    ELSE Ok(valuesOf(results))

\* `__key__ HAS ANCESTOR ${keyLiteral}`
ancestorText(keyLiteral) ==
    IF ~keyLiteral.ok THEN keyLiteral
    ELSE Ok(<<"_","_","k","e","y","_","_"," ","H","A","S"," ",
              "A","N","C","E","S","T","O","R"," ">> \o keyLiteral.value)

\* `${clause.field} IN ARRAY(${parsedValues.join(", ")})`
inText(clause, parsedValues) ==
    IF ~parsedValues.ok THEN parsedValues
    ELSE Ok(clause.field \o <<" ","I","N"," ","A","R","R","A","Y","(">>
            \o join(parsedValues.value, <<",", " ">>) \o <<")">>)

\* `${clause.field} ${clause.operator} ${parseWhereValue(clause)}`
comparisonText(clause, literal) ==
    IF ~literal.ok THEN literal
    ELSE Ok(clause.field \o <<" ">> \o operatorText(clause.operator)
            \o <<" ">> \o literal.value)

\* buildWhereClause with the fault of parsing a HAS ANCESTOR value by the
\* clause's stored type instead of as a key
buildWhereClauseStoredType(clause) ==
    IF clause.operator = "HAS ANCESTOR"
    THEN ancestorText(parseWhereValue(clause))
    ELSE comparisonText(clause, parseWhereValue(clause))

\* buildWhereClause, operator IN, once the values have been split
inPredicate(clause, values) ==
    IF Len(values) = 0 THEN Throw(errInEmpty(clause.field))
    ELSE inText(clause,
                mapped([i \in 1..Len(values) |->
                    parseWhereValue([clause EXCEPT !.value = values[i]])]))

\* function buildWhereClause(clause)
buildWhereClause(clause) ==
    IF clause.operator = "HAS ANCESTOR"
    THEN ancestorText(parseWhereValue([clause EXCEPT !.valueType = "key"]))
    ELSE IF clause.operator = "IN"
    THEN IF clause.valueType = "null" THEN Throw(errInNull(clause.field))
         ELSE inPredicate(clause, splitInValues(clause.value))
    ELSE comparisonText(clause, parseWhereValue(clause))

\* clause.field.trim() !== ""
hasField(clause) == trim(clause.field) # <<>>

\* wherePart with the fault of writing WHERE before an empty predicate
wherePartAlways(whereClauseTexts) ==
    <<" ","W","H","E","R","E"," ">>
    \o join(whereClauseTexts, <<" ","A","N","D"," ">>)

\* buildQuery: wherePart
wherePart(whereClauseTexts) ==
    IF Len(whereClauseTexts) > 0
    THEN <<" ","W","H","E","R","E"," ">>
         \o join(whereClauseTexts, <<" ","A","N","D"," ">>)
    ELSE <<>>

\* buildQuery: orderPart
orderPart(order, direction) ==
    IF trim(order) # <<>>
    THEN <<" ","O","R","D","E","R"," ","B","Y"," ">> \o order \o <<" ">>
         \o directionText(direction)
    ELSE <<>>

\* `SELECT * FROM ${kind}${wherePart}${orderPart}`
queryText(kindName, whereClauseTexts, order, direction) ==
    IF ~whereClauseTexts.ok THEN whereClauseTexts
    ELSE Ok(<<"S","E","L","E","C","T"," ","*"," ","F","R","O","M"," ">>
            \o kindName \o wherePart(whereClauseTexts.value)
            \o orderPart(order, direction))

\* clauses.filter(...).map(buildWhereClause)
buildEach(activeClauses) ==
    mapped([i \in 1..Len(activeClauses) |-> buildWhereClause(activeClauses[i])])

\* function buildQuery(kind, clauses, orderField, orderDirection)
buildQuery(kindName, clauses, order, direction) ==
    queryText(kindName, buildEach(SelectSeq(clauses, hasField)), order, direction)

\* if (combinations.length > 50)
MaxCombinations == 50

\* expandOne with the fault of binding only the first value
expandOneFirstValue(combinations, clause, values) ==
    [n \in 1..Len(combinations) |->
        Append(combinations[n],
               [clause EXCEPT !.operator = "=", !.value = values[1]])]

\* expandOne with the fault of leaving the operator of the clause as it is
expandOneKeepingOperator(combinations, clause, values) ==
    [n \in 1..(Len(combinations) * Len(values)) |->
        Append(combinations[((n - 1) \div Len(values)) + 1],
               [clause EXCEPT !.value = values[((n - 1) % Len(values)) + 1]])]

\* expandOne with the fault of putting the bound clause in front
expandOnePrepending(combinations, clause, values) ==
    [n \in 1..(Len(combinations) * Len(values)) |->
        <<[clause EXCEPT !.operator = "=",
                         !.value = values[((n - 1) % Len(values)) + 1]]>>
        \o combinations[((n - 1) \div Len(values)) + 1]]

\* One round of the loop of expandInClauses: every combination so far,
\* extended by the clause bound with "=" to each of its values, in order.
expandOne(combinations, clause, values) ==
    [n \in 1..(Len(combinations) * Len(values)) |->
        Append(combinations[((n - 1) \div Len(values)) + 1],
               [clause EXCEPT !.operator = "=",
                              !.value = values[((n - 1) % Len(values)) + 1]])]

\* for (const clause of inClauses) { ... }
RECURSIVE expandLoop(_, _)
expandLoop(inClauses, combinations) ==
    IF inClauses = <<>> THEN Ok(combinations)
    ELSE IF Len(splitInValues(Head(inClauses).value)) = 0
    THEN Throw(errInEmpty(Head(inClauses).field))
    ELSE expandLoop(Tail(inClauses),
                    expandOne(combinations, Head(inClauses),
                              splitInValues(Head(inClauses).value)))

\* capped with the fault of refusing MaxCombinations combinations too
cappedAtOrAbove(expanded) ==
    IF ~expanded.ok THEN expanded
    ELSE IF Len(expanded.value) >= MaxCombinations THEN Throw(errTooMany)
    ELSE expanded

\* if (combinations.length > 50) throw ...; return combinations
capped(expanded) ==
    IF ~expanded.ok THEN expanded
    ELSE IF Len(expanded.value) > MaxCombinations THEN Throw(errTooMany)
    ELSE expanded

\* function expandInClauses(clauses)
expandInClauses(clauses) ==
    capped(expandLoop(
        SelectSeq(clauses, LAMBDA c : hasField(c) /\ c.operator = "IN"),
        <<SelectSeq(clauses, LAMBDA c : hasField(c) /\ c.operator # "IN")>>))

(***************************************************************************)
(* The state of QueryBuilderPage                                           *)
(***************************************************************************)
\* queryError: null, or the message of the error caught
NoError == [isNull |-> TRUE, message |-> <<>>]
Error(message) == [isNull |-> FALSE, message |-> message]

\* The store the page looks at: two kinds and their fields.
Person == <<"P","e","r","s","o","n">>
Org == <<"O","r","g">>
Age == <<"a","g","e">>
Name == <<"n","a","m","e">>
KeyField == <<"_","_","k","e","y","_","_">>

\* useKinds(namespace).data before it has loaded
NoKinds == [loaded |-> FALSE, list |-> <<>>]

\* What useKinds(namespace) may deliver: an empty namespace, or both kinds.
KindLists == {<<>>, <<Person, Org>>}

\* useKindFields(kind).data before it has loaded (and while kind is "")
NoFields ==
    [loaded |-> FALSE, allFields |-> <<>>, numericFields |-> <<>>,
     fieldTypes |-> <<>>]

\* What useKindFields(kind) delivers for each kind of the store.
KindSchema(kindName) ==
    IF kindName = Person
    THEN [loaded |-> TRUE, allFields |-> <<Age>>, numericFields |-> <<Age>>,
          fieldTypes |-> [f \in {Age} |-> <<"integer">>]]
    ELSE [loaded |-> TRUE, allFields |-> <<Name>>, numericFields |-> <<>>,
          fieldTypes |-> [f \in {Name} |-> <<"string">>]]

Range(s) == {s[i] : i \in 1..Len(s)}

\* Array.prototype.includes
includes(s, x) == \E i \in 1..Len(s) : s[i] = x

\* const propertyTypeToValueType: every property type maps to the value
\* type of the same name
propertyTypeToValueType(propertyType) == propertyType

\* type Aggregation
Aggregation == {"none", "count", "sum", "avg", "min", "max"}

\* A clause as addWhereClause creates it
newClause(id) ==
    [id |-> id, field |-> <<>>, operator |-> "=", value |-> <<>>,
     valueType |-> "string"]

\* The updater of addWhereClause: id is Date.now() + previous.length
addWhereClause(previous, dateNow) ==
    Append(previous, newClause(dateNow + Len(previous)))

\* The updater of removeWhereClause(id)
removeWhereClause(previous, id) ==
    SelectSeq(previous, LAMBDA clause : clause.id # id)

\* { ...clause, ...patch }
merge(clause, patch) ==
    [f \in DOMAIN clause |-> IF f \in DOMAIN patch THEN patch[f] ELSE clause[f]]

\* updateWhereClause with the fault of patching every clause
updateWhereClauseAll(previous, id, patch) ==
    [i \in 1..Len(previous) |-> merge(previous[i], patch)]

\* The updater of updateWhereClause(id, patch)
updateWhereClause(previous, id, patch) ==
    [i \in 1..Len(previous) |->
        IF previous[i].id = id THEN merge(previous[i], patch) ELSE previous[i]]

\* fieldSync with the fault of putting a fresh clause where a field is cleared
fieldSyncResetting(fieldsData, order, aggField, clauses) ==
    IF ~fieldsData.loaded
    THEN [orderField |-> order, aggregationField |-> aggField,
          whereClauses |-> clauses]
    ELSE [orderField |->
              IF order # <<>> /\ ~includes(fieldsData.allFields, order)
              THEN <<>> ELSE order,
          aggregationField |->
              IF aggField # <<>> /\ ~includes(fieldsData.numericFields, aggField)
              THEN <<>> ELSE aggField,
          whereClauses |->
              [i \in 1..Len(clauses) |->
                  IF includes(fieldsData.allFields, clauses[i].field)
                     \/ clauses[i].field = KeyField
                  THEN clauses[i]
                  ELSE newClause(clauses[i].id)]]

\* The effect on [fields, orderField, aggregationField]: what it leaves of
\* the order field, the aggregation field and the clauses.
fieldSync(fieldsData, order, aggField, clauses) ==
    IF ~fieldsData.loaded
    THEN [orderField |-> order, aggregationField |-> aggField,
          whereClauses |-> clauses]
    ELSE [orderField |->
              IF order # <<>> /\ ~includes(fieldsData.allFields, order)
              THEN <<>> ELSE order,
          aggregationField |->
              IF aggField # <<>> /\ ~includes(fieldsData.numericFields, aggField)
              THEN <<>> ELSE aggField,
          whereClauses |->
              [i \in 1..Len(clauses) |->
                  IF includes(fieldsData.allFields, clauses[i].field)
                     \/ clauses[i].field = KeyField
                  THEN clauses[i]
                  ELSE [clauses[i] EXCEPT !.field = <<>>]]]

\* The effect on [kinds, kind]: the first kind is chosen while none is.
autoKind(kindsData, kindName) ==
    IF kindName = <<>> /\ kindsData.loaded /\ Len(kindsData.list) > 0
    THEN kindsData.list[1]
    ELSE kindName

\* runQuery: setBuiltQueries(nextQueries); setQueryError(null), or the catch
settled(nextQueries, previousQueries) ==
    IF nextQueries.ok
    THEN [builtQueries |-> nextQueries.value, queryError |-> NoError]
    ELSE [builtQueries |-> previousQueries,
          queryError |-> Error(nextQueries.error)]

\* settled with the fault of issuing the queries built before the failure
settledSoFar(built, previousQueries) ==
    IF firstFailure(built) = 0
    THEN [builtQueries |-> valuesOf(built), queryError |-> NoError]
    ELSE [builtQueries |-> valuesOf(SubSeq(built, 1, firstFailure(built) - 1)),
          queryError |-> Error(built[firstFailure(built)].error)]

\* issueVariants with the fault of keeping what was built before a failure
issueVariantsBuiltSoFar(queryVariants, kindName, order, direction, previousQueries) ==
    IF ~queryVariants.ok
    THEN [builtQueries |-> previousQueries,
          queryError |-> Error(queryVariants.error)]
    ELSE settledSoFar(
            [i \in 1..Len(queryVariants.value) |->
                buildQuery(kindName, queryVariants.value[i], order, direction)],
            previousQueries)

\* runQuery, once the variants are expanded: all of them are built, and
\* issued if none throws
issueVariants(queryVariants, kindName, order, direction, previousQueries) ==
    IF ~queryVariants.ok
    THEN [builtQueries |-> previousQueries,
          queryError |-> Error(queryVariants.error)]
    ELSE settled(
            mapped([i \in 1..Len(queryVariants.value) |->
                buildQuery(kindName, queryVariants.value[i], order, direction)]),
            previousQueries)

\* What runQuery leaves in builtQueries and queryError.
runQueryOutcome(kindName, clauses, order, direction, previousQueries) ==
    IF kindName = <<>>
    THEN [builtQueries |-> previousQueries, queryError |-> Error(errNoKind)]
    ELSE issueVariants(expandInClauses(clauses), kindName, order, direction,
                       previousQueries)

(***************************************************************************)
(* Bounds and input sets of the editing machine                            *)
(***************************************************************************)
\* The most clauses the editing machine adds.
MaxClauses == 2

\* The clock runs from 0 to MaxNow milliseconds.
MaxNow == 1

\* The operators, value types and values the edits choose among.
EditOperators == {"=", "HAS ANCESTOR"}
EditValueTypes == {"string", "key"}
EditValues == {<<>>, <<"7">>}
EditAggregations == {"none", "sum"}

(***************************************************************************)
(* The handlers of QueryBuilderPage.  Each includes the effects that run   *)
(* after it.                                                               *)
(***************************************************************************)
InitBuilder ==
    /\ kinds = NoKinds
    /\ kind = <<>>
    /\ fields = NoFields
    /\ whereClauses = <<>>
    /\ orderField = <<>>
    /\ orderDirection = "ASC"
    /\ aggregation = "none"
    /\ aggregationField = <<>>
    /\ builtQueries = <<>>
    /\ queryError = NoError
    /\ now = 0

InitJoinIdle ==
    /\ queryResults = [loaded |-> FALSE, rows |-> <<>>]
    /\ joinProperty = <<>>
    /\ lookupKeys = <<>>
    /\ joinedEntities = [loaded |-> FALSE, rows |-> <<>>]
    /\ error = NoError
    /\ lookupError = NoError
    /\ lookupCalls = 0
    /\ queries = <<>>
    /\ draftQuery = [stored |-> FALSE, text |-> <<>>]
    /\ query = <<>>
    /\ currentQuery = <<>>
    /\ lastEdit = [made |-> FALSE, text |-> <<>>]
    /\ lastStored = [made |-> FALSE, text |-> <<>>]

InitNoCall ==
    /\ call = "none"
    /\ argument = <<>>
    /\ returned = Ok(<<>>)

\* useKinds delivers the kinds
KindsLoaded ==
    /\ ~kinds.loaded
    /\ \E list \in KindLists :
        /\ kinds' = [loaded |-> TRUE, list |-> list]
        /\ kind' = autoKind(kinds', kind)
    /\ fields' = IF kind' = kind THEN fields ELSE NoFields
    /\ UNCHANGED <<whereClauses, orderField, orderDirection, aggregation,
                   aggregationField, builtQueries, queryError, now>>
    /\ UNCHANGED <<joinVars, callVars>>
    /\ UNCHANGED pageVars

\* The kind select's onChange
selectKind ==
    /\ \E k \in {<<>>} \cup Range(kinds.list) :
        kind' = autoKind(kinds, k)
    /\ kind' # kind
    /\ fields' = NoFields
    /\ UNCHANGED <<kinds, whereClauses, orderField, orderDirection, aggregation,
                   aggregationField, builtQueries, queryError, now>>
    /\ UNCHANGED <<joinVars, callVars>>
    /\ UNCHANGED pageVars

\* useKindFields delivers the fields of the kind; the field effect runs
FieldsLoaded ==
    /\ kind # <<>>
    /\ ~fields.loaded
    /\ fields' = KindSchema(kind)
    /\ LET synced == fieldSync(fields', orderField, aggregationField, whereClauses)
       IN  /\ orderField' = synced.orderField
           /\ aggregationField' = synced.aggregationField
           /\ whereClauses' = synced.whereClauses
    /\ UNCHANGED <<kinds, kind, orderDirection, aggregation, builtQueries,
                   queryError, now>>
    /\ UNCHANGED <<joinVars, callVars>>
    /\ UNCHANGED pageVars

\* The order field select's onChange; the field effect runs
selectOrderField ==
    /\ \E f \in {<<>>} \cup Range(fields.allFields) :
        /\ f # orderField
        /\ LET synced == fieldSync(fields, f, aggregationField, whereClauses)
           IN  /\ orderField' = synced.orderField
               /\ aggregationField' = synced.aggregationField
               /\ whereClauses' = synced.whereClauses
    /\ UNCHANGED <<kinds, kind, fields, orderDirection, aggregation,
                   builtQueries, queryError, now>>
    /\ UNCHANGED <<joinVars, callVars>>
    /\ UNCHANGED pageVars

\* The order direction select's onChange
selectOrderDirection ==
    /\ \E d \in SortDirection : d # orderDirection /\ orderDirection' = d
    /\ UNCHANGED <<kinds, kind, fields, whereClauses, orderField, aggregation,
                   aggregationField, builtQueries, queryError, now>>
    /\ UNCHANGED <<joinVars, callVars>>
    /\ UNCHANGED pageVars

\* The aggregation select's onChange
selectAggregation ==
    /\ \E a \in EditAggregations : a # aggregation /\ aggregation' = a
    /\ UNCHANGED <<kinds, kind, fields, whereClauses, orderField, orderDirection,
                   aggregationField, builtQueries, queryError, now>>
    /\ UNCHANGED <<joinVars, callVars>>
    /\ UNCHANGED pageVars

\* The aggregation field select's onChange; the field effect runs
selectAggregationField ==
    /\ aggregation \notin {"none", "count"}
    /\ \E f \in {<<>>} \cup Range(fields.numericFields) :
        /\ f # aggregationField
        /\ LET synced == fieldSync(fields, orderField, f, whereClauses)
           IN  /\ orderField' = synced.orderField
               /\ aggregationField' = synced.aggregationField
               /\ whereClauses' = synced.whereClauses
    /\ UNCHANGED <<kinds, kind, fields, orderDirection, aggregation,
                   builtQueries, queryError, now>>
    /\ UNCHANGED <<joinVars, callVars>>
    /\ UNCHANGED pageVars

\* The Add Filter button
clickAddFilter ==
    /\ Len(whereClauses) < MaxClauses
    /\ whereClauses' = addWhereClause(whereClauses, now)
    /\ UNCHANGED <<kinds, kind, fields, orderField, orderDirection, aggregation,
                   aggregationField, builtQueries, queryError, now>>
    /\ UNCHANGED <<joinVars, callVars>>
    /\ UNCHANGED pageVars

\* The X button of a row
clickRemove ==
    /\ \E i \in 1..Len(whereClauses) :
        whereClauses' = removeWhereClause(whereClauses, whereClauses[i].id)
    /\ UNCHANGED <<kinds, kind, fields, orderField, orderDirection, aggregation,
                   aggregationField, builtQueries, queryError, now>>
    /\ UNCHANGED <<joinVars, callVars>>
    /\ UNCHANGED pageVars

\* fields?.fieldTypes?.[selectedField]?.[0], or "" when there is none
detectedType(fieldsData, selectedField) ==
    IF fieldsData.loaded /\ selectedField \in DOMAIN fieldsData.fieldTypes
       /\ Len(fieldsData.fieldTypes[selectedField]) > 0
    THEN fieldsData.fieldTypes[selectedField][1]
    ELSE ""

\* The patch of a row's field select's onChange
fieldPatch(fieldsData, clause, selectedField) ==
    LET detected == detectedType(fieldsData, selectedField)
    IN  [field |-> selectedField,
         valueType |-> IF detected # "" THEN propertyTypeToValueType(detected)
                       ELSE clause.valueType]

\* The patch of a row's operator select's onChange
operatorPatch(nextOperator) ==
    IF nextOperator = "HAS ANCESTOR"
    THEN [operator |-> nextOperator, field |-> KeyField, valueType |-> "key"]
    ELSE [operator |-> nextOperator]

\* A row's field select's onChange
selectField ==
    /\ \E i \in 1..Len(whereClauses) :
       \E f \in {<<>>, KeyField} \cup Range(fields.allFields) :
        /\ f # whereClauses[i].field
        /\ whereClauses' = updateWhereClause(whereClauses, whereClauses[i].id,
                                fieldPatch(fields, whereClauses[i], f))
    /\ UNCHANGED <<kinds, kind, fields, orderField, orderDirection, aggregation,
                   aggregationField, builtQueries, queryError, now>>
    /\ UNCHANGED <<joinVars, callVars>>
    /\ UNCHANGED pageVars

\* A row's operator select's onChange
selectOperator ==
    /\ \E i \in 1..Len(whereClauses) :
       \E op \in EditOperators :
        /\ op # whereClauses[i].operator
        /\ whereClauses' = updateWhereClause(whereClauses, whereClauses[i].id,
                                operatorPatch(op))
    /\ UNCHANGED <<kinds, kind, fields, orderField, orderDirection, aggregation,
                   aggregationField, builtQueries, queryError, now>>
    /\ UNCHANGED <<joinVars, callVars>>
    /\ UNCHANGED pageVars

\* A row's value type select's onChange
selectValueType ==
    /\ \E i \in 1..Len(whereClauses) :
       \E t \in EditValueTypes :
        /\ t # whereClauses[i].valueType
        /\ whereClauses' = updateWhereClause(whereClauses, whereClauses[i].id,
                                [valueType |-> t])
    /\ UNCHANGED <<kinds, kind, fields, orderField, orderDirection, aggregation,
                   aggregationField, builtQueries, queryError, now>>
    /\ UNCHANGED <<joinVars, callVars>>
    /\ UNCHANGED pageVars

\* A row's value input's onChange
inputValue ==
    /\ \E i \in 1..Len(whereClauses) :
       \E v \in EditValues :
        /\ v # whereClauses[i].value
        /\ whereClauses' = updateWhereClause(whereClauses, whereClauses[i].id,
                                [value |-> v])
    /\ UNCHANGED <<kinds, kind, fields, orderField, orderDirection, aggregation,
                   aggregationField, builtQueries, queryError, now>>
    /\ UNCHANGED <<joinVars, callVars>>
    /\ UNCHANGED pageVars

\* A millisecond passes
Tick ==
    /\ now < MaxNow
    /\ now' = now + 1
    /\ UNCHANGED <<kinds, kind, fields, whereClauses, orderField, orderDirection,
                   aggregation, aggregationField, builtQueries, queryError>>
    /\ UNCHANGED <<joinVars, callVars>>
    /\ UNCHANGED pageVars

\* The Run Query button (and Enter in a value input)
runQuery ==
    /\ \E outcome \in {runQueryOutcome(kind, whereClauses, orderField,
                                        orderDirection, builtQueries)} :
        /\ builtQueries' = outcome.builtQueries
        /\ queryError' = outcome.queryError
    /\ UNCHANGED <<kinds, kind, fields, whereClauses, orderField, orderDirection,
                   aggregation, aggregationField, now>>
    /\ UNCHANGED joinVars
    /\ UNCHANGED pageVars

(***************************************************************************)
(* Spec: the editing machine.  The edit handlers neither read nor write    *)
(* builtQueries and queryError, and runQuery writes nothing else, so the   *)
(* run is checked on its own, in SpecBuild, from the states edits reach.   *)
(***************************************************************************)
Init == InitBuilder /\ InitJoinIdle /\ InitNoCall

Next ==
    \/ KindsLoaded
    \/ selectKind
    \/ FieldsLoaded
    \/ selectOrderField
    \/ selectOrderDirection
    \/ selectAggregation
    \/ selectAggregationField
    \/ clickAddFilter
    \/ clickRemove
    \/ selectField
    \/ selectOperator
    \/ selectValueType
    \/ inputValue
    \/ Tick

Spec == Init /\ [][Next]_vars

(***************************************************************************)
(* SpecBuild: expandInClauses, buildQuery and runQuery applied to clause   *)
(* lists the edits can reach.                                              *)
(***************************************************************************)
\* The most clauses of a drawn clause list.
MaxBuildClauses == 2

KeyLiteral == <<"K","E","Y","(","O","r","g",","," ","'","a","c","m","e","'",")">>

\* The fields a row's select offers: with no kind, no field list has loaded.
BuildFields(kindName) ==
    IF kindName = <<>> THEN {KeyField} ELSE {Age}

BuildOperators == {">", "IN", "HAS ANCESTOR"}

\* Declared type and raw text: a valid integer; an integer list whose second
\* element is invalid; a key literal declared a string; an empty string.
BuildTypedValues ==
    { <<"integer", <<"3","0">>>>,
      <<"integer", <<"1",","," ","x">>>>,
      <<"string", KeyLiteral>>,
      <<"string", <<>>>> }

\* A blank field hides its clause from the query: three such clauses stand
\* for them, an ancestor clause and two that would not render.
BlankShapes ==
    { [field |-> <<>>, operator |-> "HAS ANCESTOR", valueType |-> "string",
       value |-> KeyLiteral],
      [field |-> <<" ">>, operator |-> ">", valueType |-> "integer",
       value |-> <<"1",","," ","x">>],
      [field |-> <<>>, operator |-> "IN", valueType |-> "string",
       value |-> <<>>] }

BuildShapes(kindName) ==
    { [field |-> f, operator |-> o, valueType |-> tv[1], value |-> tv[2]] :
        f \in BuildFields(kindName), o \in BuildOperators, tv \in BuildTypedValues }
    \cup BlankShapes

\* Clause lists of up to MaxBuildClauses clauses, with the ids that adding
\* them one after the other within one millisecond gives.
BuildClauseLists(kindName) ==
    UNION { { [i \in 1..n |->
                 [id |-> i - 1, field |-> shapes[i].field,
                  operator |-> shapes[i].operator, value |-> shapes[i].value,
                  valueType |-> shapes[i].valueType]] :
              shapes \in [1..n -> BuildShapes(kindName)] } :
            n \in 0..MaxBuildClauses }

\* "SELECT * FROM Person", issued by an earlier run
EarlierQuery ==
    <<"S","E","L","E","C","T"," ","*"," ","F","R","O","M"," ">> \o Person

\* What surrounds the clause list when Run Query is pressed: before the
\* kinds have loaded; with a kind and an earlier refused run; with a kind,
\* an order field and an earlier run that issued a query.
BuildContexts ==
    { [kinds |-> NoKinds, kind |-> <<>>, fields |-> NoFields,
       orderField |-> <<>>, orderDirection |-> "ASC",
       builtQueries |-> <<>>, queryError |-> NoError],
      [kinds |-> [loaded |-> TRUE, list |-> <<Person, Org>>], kind |-> Person,
       fields |-> KindSchema(Person),
       orderField |-> <<>>, orderDirection |-> "ASC",
       builtQueries |-> <<>>, queryError |-> Error(errNoKind)],
      [kinds |-> [loaded |-> TRUE, list |-> <<Person, Org>>], kind |-> Person,
       fields |-> KindSchema(Person),
       orderField |-> Age, orderDirection |-> "DESC",
       builtQueries |-> <<EarlierQuery>>, queryError |-> NoError] }

DigitText == <<"0", "1", "2", "3", "4", "5", "6", "7", "8", "9">>

\* The decimal text of a natural number
RECURSIVE decimal(_)
decimal(n) ==
    IF n < 10 THEN <<DigitText[n + 1]>>
    ELSE decimal(n \div 10) \o <<DigitText[(n % 10) + 1]>>

\* "1,2,...,n"
numberList(n) == join([i \in 1..n |-> decimal(i)], <<",">>)

\* How many values the IN clauses of a long list hold.
LongListSizes == {1, 2, 3, 5, 10, 17, 25, 26, 50, 51}

\* Two IN clauses with long value lists
LongClauseLists ==
    { << [id |-> 0, field |-> Age, operator |-> "IN", value |-> numberList(m),
          valueType |-> "integer"],
         [id |-> 1, field |-> Age, operator |-> "IN", value |-> numberList(n),
          valueType |-> "integer"] >> :
        m \in LongListSizes, n \in LongListSizes }

InitBuild ==
    /\ \E context \in BuildContexts :
        /\ kinds = context.kinds
        /\ kind = context.kind
        /\ fields = context.fields
        /\ orderField = context.orderField
        /\ orderDirection = context.orderDirection
        /\ builtQueries = context.builtQueries
        /\ queryError = context.queryError
        /\ whereClauses \in
              BuildClauseLists(context.kind)
              \cup (IF context.kind = <<>> THEN {} ELSE LongClauseLists)
    /\ aggregation = "none"
    /\ aggregationField = <<>>
    /\ now = 0
    /\ InitJoinIdle
    /\ InitNoCall

\* expandInClauses(whereClauses) is called
callExpandInClauses ==
    /\ call = "none"
    /\ call' = "expandInClauses"
    /\ UNCHANGED argument
    /\ returned' = expandInClauses(whereClauses)
    /\ UNCHANGED <<builderVars, joinVars>>
    /\ UNCHANGED pageVars

\* buildQuery(kind, whereClauses, orderField, orderDirection) is called
callBuildQuery ==
    /\ call = "none"
    /\ call' = "buildQuery"
    /\ UNCHANGED argument
    /\ returned' = buildQuery(kind, whereClauses, orderField, orderDirection)
    /\ UNCHANGED <<builderVars, joinVars>>
    /\ UNCHANGED pageVars

\* Run Query is pressed
pressRunQuery ==
    /\ call = "none"
    /\ call' = "runQuery"
    /\ runQuery
    /\ UNCHANGED <<argument, returned>>
    /\ UNCHANGED pageVars

NextBuild ==
    \/ callExpandInClauses
    \/ callBuildQuery
    \/ pressRunQuery

SpecBuild == InitBuild /\ [][NextBuild]_vars

(***************************************************************************)
(* SpecLiteral: parseWhereValue, splitInValues, buildWhereClause,          *)
(* expandInClauses and runQuery applied to one clause, over every declared *)
(* type and over raw texts that hold quotes, backslashes, blanks and       *)
(* commas.                                                                 *)
(***************************************************************************)
\* The most characters of a drawn raw text.
MaxTextLen == 3

TextCharacters == {"a", "'", "\\", " ", ","}

\* Every text of up to MaxTextLen of these characters, and O'Brien\
LiteralTexts ==
    UNION { [1..n -> TextCharacters] : n \in 0..MaxTextLen }
    \cup { <<"O","'","B","r","i","e","n","\\">> }

\* Declared type and raw text: every text declared a string, and for each
\* other type texts it accepts and texts it refuses
LiteralTypedValues ==
    { <<"string", text>> : text \in LiteralTexts }
    \cup { <<"integer", <<"3","0">>>>, <<"integer", <<" ","-","7"," ">>>>, <<"integer", <<"x">>>>,
           <<"integer", <<>>>>, <<"integer", <<"1",","," ","x">>>>, <<"integer", <<"1",",","2">>>>,
           <<"integer", <<" ",","," ",",">>>>,
           <<"double", <<"1",".","5">>>>, <<"double", <<"x">>>>, <<"double", <<"2",".","5",",","x">>>>,
           <<"boolean", <<"T","R","U","E">>>>, <<"boolean", <<" ","f","a","l","s","e"," ">>>>,
           <<"boolean", <<"y","e","s">>>>, <<"boolean", <<>>>>,
           <<"null", <<>>>>, <<"null", <<"1",",","2">>>>, <<"null", <<"x">>>>,
           <<"timestamp", <<"2","0","2","0","-","0","1","-","0","1","T","0","0",":","0","0",":","0","0","Z">>>>, <<"timestamp", <<" "," ">>>>,
           <<"timestamp", <<>>>>,
           <<"key", KeyLiteral>>, <<"key", <<"k","e","y"," ","(","x",")">>>>, <<"key", <<"O","r","g">>>>,
           <<"key", <<>>>>,
           <<"blob", <<"a","G","k","=">>>>, <<"blob", <<" ">>>>,
           <<"geoPoint", <<"1",".","5",",","2">>>>, <<"geoPoint", <<"1",".","5">>>>,
           <<"geoPoint", <<"x",",","2">>>>, <<"geoPoint", <<>>>>,
           <<"array", <<"A","R","R","A","Y","(","1",")">>>>, <<"array", <<" ">>>>,
           <<"entity", <<"x">>>>, <<"entity", <<>>>>,
           <<"raw", <<"N","U","L","L">>>>, <<"raw", <<>>>> }

LiteralFields == {Age, KeyField}

LiteralOperators == {"=", "IN"}

\* One clause, with a kind chosen and nothing run before
InitLiteral ==
    /\ kinds = [loaded |-> TRUE, list |-> <<Person, Org>>]
    /\ kind = Person
    /\ fields = KindSchema(Person)
    /\ orderField = <<>>
    /\ orderDirection = "ASC"
    /\ builtQueries = <<>>
    /\ queryError = NoError
    /\ \E f \in LiteralFields, o \in LiteralOperators, tv \in LiteralTypedValues :
        whereClauses = << [id |-> 0, field |-> f, operator |-> o,
                           value |-> tv[2], valueType |-> tv[1]] >>
    /\ aggregation = "none"
    /\ aggregationField = <<>>
    /\ now = 0
    /\ InitJoinIdle
    /\ InitNoCall

\* parseWhereValue(clause) is called
callParseWhereValue ==
    /\ call = "none"
    /\ call' = "parseWhereValue"
    /\ UNCHANGED argument
    /\ returned' = parseWhereValue(whereClauses[1])
    /\ UNCHANGED <<builderVars, joinVars>>
    /\ UNCHANGED pageVars

\* splitInValues(clause.value) is called
callSplitInValues ==
    /\ call = "none"
    /\ call' = "splitInValues"
    /\ UNCHANGED argument
    /\ returned' = Ok(splitInValues(whereClauses[1].value))
    /\ UNCHANGED <<builderVars, joinVars>>
    /\ UNCHANGED pageVars

\* buildWhereClause(clause) is called
callBuildWhereClause ==
    /\ call = "none"
    /\ call' = "buildWhereClause"
    /\ UNCHANGED argument
    /\ returned' = buildWhereClause(whereClauses[1])
    /\ UNCHANGED <<builderVars, joinVars>>
    /\ UNCHANGED pageVars

NextLiteral ==
    \/ callParseWhereValue
    \/ callSplitInValues
    \/ callBuildWhereClause
    \/ callExpandInClauses
    \/ pressRunQuery

SpecLiteral == InitLiteral /\ [][NextLiteral]_vars

(***************************************************************************)
(* The join resolver of QueryPage.  A Key is its path of segments, each a  *)
(* kind with an id or a name; a property value is a record with the one    *)
(* field that tags it; an entity is a key and, when it has any, properties.*)
(***************************************************************************)
Owner == <<"o","w","n","e","r">>
Boss == <<"b","o","s","s">>
JoinedSuffix == <<"_","j","o","i","n","e","d">>
OwnerJoined == Owner \o JoinedSuffix

AcmeKey == [path |-> <<[kind |-> Org, name |-> <<"a","c","m","e">>]>>]
OrgOneKey == [path |-> <<[kind |-> Org, id |-> <<"1">>]>>]
PersonKey(n) == [path |-> <<[kind |-> Person, id |-> <<n>>]>>]

\* One segment of the canonical key string, ids and names tagged apart
segmentToString(segment) ==
    segment.kind
    \o (IF "id" \in DOMAIN segment THEN <<"#">> \o segment.id
        ELSE <<"'">> \o segment.name)

\* keyToString(key, project, namespace), for the keys of one project and
\* namespace: the segments of the path in order
keyToString(key) ==
    join([i \in 1..Len(key.path) |-> segmentToString(key.path[i])], <<"/">>)

\* The documents the batch lookup can find: Acme with a name, and perhaps
\* Org 1, which has no properties.
AcmeRow == [key |-> AcmeKey, properties |-> (Name :> [stringValue |-> <<"A","c","m","e">>])]
OrgOneRow == [key |-> OrgOneKey]
Stores == {{AcmeRow}, {AcmeRow, OrgOneRow}}

\* lookupByKeys(keys): the documents found, one for each key asked for;
\* a key that is missing is absent from the result
lookupByKeys(store, keys) ==
    [i \in 1..Len(SelectSeq(keys, LAMBDA k : \E e \in store : e.key = k)) |->
        CHOOSE e \in store :
            e.key = SelectSeq(keys, LAMBDA k : \E d \in store : d.key = k)[i]]

\* The rows a query can deliver: a reference to Acme; references to Acme
\* and to Org 1; a string under the join property's name; a reference to
\* Org 1 beside a property named owner_joined; a row without properties.
QueryRows ==
    { [key |-> PersonKey("1"),
       properties |-> (Owner :> [keyValue |-> AcmeKey])],
      [key |-> PersonKey("2"),
       properties |-> (Owner :> [keyValue |-> AcmeKey])
                      @@ (Boss :> [keyValue |-> OrgOneKey])],
      [key |-> PersonKey("3"),
       properties |-> (Owner :> [stringValue |-> <<"x">>])],
      [key |-> PersonKey("4"),
       properties |-> (Owner :> [keyValue |-> OrgOneKey])
                      @@ (OwnerJoined :> [stringValue |-> <<"k","e","p","t">>])],
      [key |-> PersonKey("5")] }

\* The most rows a query delivers.
MaxRows == 2

ResultLists ==
    UNION { [1..n -> QueryRows] : n \in 0..MaxRows }

\* What is typed into the join input
JoinTexts ==
    { <<>>, Owner, <<"o","w","n","e","r",","," ","b","o","s","s">>,
      <<"o","w","n","e","r",",","o","w","n","e","r">>,
      <<" ","b","o","s","s"," ",",",","," ">> }

\* parseJoinProperties with the fault of not trimming the names
parseJoinPropertiesUntrimmed(text) ==
    SelectSeq(split(text, ","), LAMBDA property : Len(property) > 0)

\* function parseJoinProperties(joinProperty)
parseJoinProperties(text) ==
    SelectSeq(trimEach(split(text, ",")), LAMBDA property : Len(property) > 0)

\* const val = e.properties?.[prop]; val && "keyValue" in val
isKeyValue(e, prop) ==
    /\ "properties" \in DOMAIN e
    /\ prop \in DOMAIN e.properties
    /\ "keyValue" \in DOMAIN e.properties[prop]

\* The (row, property) pairs of the two nested loops, in the order visited
visits(rows, joinProperties) ==
    [n \in 1..(Len(rows) * Len(joinProperties)) |->
        [e |-> rows[((n - 1) \div Len(joinProperties)) + 1],
         prop |-> joinProperties[((n - 1) % Len(joinProperties)) + 1]]]

\* The keys pushed, one for each visit that finds a key
pushed(found) ==
    [n \in 1..Len(found) |-> found[n].e.properties[found[n].prop].keyValue]

\* const keysToJoin = React.useMemo(...)
keysToJoin(results, joinProperties) ==
    IF ~results.loaded \/ Len(joinProperties) = 0 THEN <<>>
    ELSE pushed(SelectSeq(visits(results.rows, joinProperties),
                          LAMBDA v : isKeyValue(v.e, v.prop)))

\* entityMap.has(kStr), for the map built from joinedEntities
entityMapHas(joinedRows, kStr) ==
    \E f \in 1..Len(joinedRows) : keyToString(joinedRows[f].key) = kStr

\* entityMap.get(kStr): the last row set under kStr
entityMapGet(joinedRows, kStr) ==
    joinedRows[Max({f \in 1..Len(joinedRows) :
                        keyToString(joinedRows[f].key) = kStr})]

\* joined.properties || {}
propertiesOrEmpty(joined) ==
    IF "properties" \in DOMAIN joined THEN joined.properties ELSE <<>>

\* joinedName with the fault of writing over the join property itself
joinedNameBare(prop) == prop

\* `${prop}_joined`
joinedName(prop) == prop \o JoinedSuffix

\* The join properties of a row whose key the map holds
resolved(e, joinedRows, joinProperties) ==
    {k \in 1..Len(joinProperties) :
        /\ isKeyValue(e, joinProperties[k])
        /\ entityMapHas(joinedRows,
               keyToString(e.properties[joinProperties[k]].keyValue))}

\* newProperties after the loop over joinProperties
newProperties(e, joinedRows, joinProperties, hits) ==
    [name \in DOMAIN e.properties
              \cup {joinedName(joinProperties[k]) : k \in hits} |->
        IF \E k \in hits : name = joinedName(joinProperties[k])
        THEN [entityValue |->
                propertiesOrEmpty(entityMapGet(joinedRows,
                    keyToString(e.properties[
                        joinProperties[Max({k \in hits :
                            name = joinedName(joinProperties[k])})]].keyValue)))]
        ELSE e.properties[name]]

\* The callback of queryResults.map in finalEntities
mergeRow(e, joinedRows, joinProperties) ==
    IF resolved(e, joinedRows, joinProperties) = {} THEN e
    ELSE [key |-> e.key,
          properties |-> newProperties(e, joinedRows, joinProperties,
                             resolved(e, joinedRows, joinProperties))]

\* finalEntities with the fault of leaving out the rows nothing was joined to
finalEntitiesJoinedOnly(results, joined, joinProperties) ==
    IF ~results.loaded THEN <<>>
    ELSE IF Len(joinProperties) = 0 \/ ~joined.loaded THEN results.rows
    ELSE SelectSeq(
            [i \in 1..Len(results.rows) |->
                mergeRow(results.rows[i], joined.rows, joinProperties)],
            LAMBDA e : resolved(e, joined.rows, joinProperties) # {})

\* const finalEntities = React.useMemo(...)
finalEntities(results, joined, joinProperties) ==
    IF ~results.loaded THEN <<>>
    ELSE IF Len(joinProperties) = 0 \/ ~joined.loaded THEN results.rows
    ELSE [i \in 1..Len(results.rows) |->
            mergeRow(results.rows[i], joined.rows, joinProperties)]

\* What useLookupEntities holds once keysToJoin is recomputed: a new key
\* list is a new request, whose data has not arrived
lookupAfter(keys, previousKeys, previousData) ==
    IF keys = previousKeys THEN previousData
    ELSE [loaded |-> FALSE, rows |-> <<>>]

\* The failure useLookupEntities holds once keysToJoin is recomputed: the
\* failure of an earlier request does not stay with a new one
lookupErrorAfter(keys, previousKeys, previousError) ==
    IF keys = previousKeys THEN previousError ELSE NoError

\* The most requests sent to lookupByKeys.
MaxLookups == 3

\* One use per key, where the page makes one use for all keys
lookupUsesPerKey(results, joinProperties) ==
    [k \in 1..Len(keysToJoin(results, joinProperties)) |->
        <<keysToJoin(results, joinProperties)[k]>>]

\* useLookupEntities(keysToJoin): the key lists the page hands to the
\* lookup in one rendering
lookupUses(results, joinProperties) ==
    <<keysToJoin(results, joinProperties)>>

\* The requests these uses send to lookupByKeys: one for a list that has
\* keys and is not the list already asked for
issued(uses, previousKeys) ==
    Cardinality({u \in 1..Len(uses) : uses[u] # <<>> /\ uses[u] # previousKeys})

\* What failed, as the collaborators report it
QueryFailure == <<"q","u","e","r","y"," ","f","a","i","l","e","d">>
LookupFailure == <<"l","o","o","k","u","p"," ","f","a","i","l","e","d">>

\* {error != null ? <ErrorMessage error={error} /> : null}
errorMessage == error

\* {isJoining && <div>Joining entities...</div>}, under queryResults != null
joiningNote ==
    /\ queryResults.loaded
    /\ lookupKeys # <<>>
    /\ ~joinedEntities.loaded
    /\ lookupError.isNull

\* useGQLQuery delivers the rows of the query
QueryDelivered ==
    /\ ~queryResults.loaded
    /\ error.isNull
    /\ \E rows \in ResultLists :
        queryResults' = [loaded |-> TRUE, rows |-> rows]
    /\ lookupKeys' = keysToJoin(queryResults', parseJoinProperties(joinProperty))
    /\ joinedEntities' = lookupAfter(lookupKeys', lookupKeys, joinedEntities)
    /\ lookupError' = lookupErrorAfter(lookupKeys', lookupKeys, lookupError)
    /\ lookupCalls' = lookupCalls
          + issued(lookupUses(queryResults', parseJoinProperties(joinProperty)),
                   lookupKeys)
    /\ lookupCalls' <= MaxLookups
    /\ UNCHANGED <<joinProperty, error, builderVars, callVars>>
    /\ UNCHANGED pageVars

\* useGQLQuery reports that the query failed
QueryFailed ==
    /\ ~queryResults.loaded
    /\ error.isNull
    /\ error' = Error(QueryFailure)
    /\ UNCHANGED <<queryResults, joinProperty, lookupKeys, joinedEntities,
                   lookupError, lookupCalls, builderVars, callVars>>
    /\ UNCHANGED pageVars

\* Another query is submitted: its rows have not arrived
submitQuery ==
    /\ queryResults.loaded \/ ~error.isNull
    /\ queryResults' = [loaded |-> FALSE, rows |-> <<>>]
    /\ error' = NoError
    /\ lookupKeys' = keysToJoin(queryResults', parseJoinProperties(joinProperty))
    /\ joinedEntities' = lookupAfter(lookupKeys', lookupKeys, joinedEntities)
    /\ lookupError' = lookupErrorAfter(lookupKeys', lookupKeys, lookupError)
    /\ lookupCalls' = lookupCalls
          + issued(lookupUses(queryResults', parseJoinProperties(joinProperty)),
                   lookupKeys)
    /\ lookupCalls' <= MaxLookups
    /\ UNCHANGED <<joinProperty, builderVars, callVars>>
    /\ UNCHANGED pageVars

\* The join input's onChange
setJoinProperty ==
    /\ \E text \in JoinTexts : text # joinProperty /\ joinProperty' = text
    /\ lookupKeys' = keysToJoin(queryResults, parseJoinProperties(joinProperty'))
    /\ joinedEntities' = lookupAfter(lookupKeys', lookupKeys, joinedEntities)
    /\ lookupError' = lookupErrorAfter(lookupKeys', lookupKeys, lookupError)
    /\ lookupCalls' = lookupCalls
          + issued(lookupUses(queryResults, parseJoinProperties(joinProperty')),
                   lookupKeys)
    /\ lookupCalls' <= MaxLookups
    /\ UNCHANGED <<queryResults, error, builderVars, callVars>>
    /\ UNCHANGED pageVars

\* useLookupEntities delivers the documents found for keysToJoin
LookupDelivered ==
    /\ ~joinedEntities.loaded
    /\ lookupError.isNull
    /\ \E store \in Stores :
        joinedEntities' = [loaded |-> TRUE, rows |-> lookupByKeys(store, lookupKeys)]
    /\ UNCHANGED <<queryResults, joinProperty, lookupKeys, error, lookupError,
                   lookupCalls, builderVars, callVars>>
    /\ UNCHANGED pageVars

\* useLookupEntities reports that the request sent to lookupByKeys failed
LookupFailed ==
    /\ ~joinedEntities.loaded
    /\ lookupError.isNull
    /\ lookupKeys # <<>>
    /\ lookupError' = Error(LookupFailure)
    /\ UNCHANGED <<queryResults, joinProperty, lookupKeys, joinedEntities, error,
                   lookupCalls, builderVars, callVars>>
    /\ UNCHANGED pageVars

NextJoin ==
    \/ QueryDelivered
    \/ QueryFailed
    \/ submitQuery
    \/ setJoinProperty
    \/ LookupDelivered
    \/ LookupFailed

SpecJoin == Init /\ [][NextJoin]_vars

(***************************************************************************)
(* The value model.  A PropertyValue is a record with the one field that   *)
(* tags it.  An optional member of a geo point or of an array value is     *)
(* held beside a flag that says whether it is there; a double is held as   *)
(* the text String(number) prints.  valueType is in the sources; the edit  *)
(* value of a property value and its way back, valueToEditValue and        *)
(* valueFromEditValue, are described by the specification (4.1, 4.5) and   *)
(* called by properties.test.ts.                                           *)
(***************************************************************************)
UnknownType == <<"U","n","k","n","o","w","n"," ","t","y","p","e">>

\* valueType with the fault of not knowing an entity value
valueTypeWithoutEntity(v) ==
    IF "timestampValue" \in DOMAIN v THEN Ok("Timestamp")
    ELSE IF "stringValue" \in DOMAIN v THEN Ok("String")
    ELSE IF "keyValue" \in DOMAIN v THEN Ok("Key")
    ELSE IF "nullValue" \in DOMAIN v THEN Ok("Null")
    ELSE IF "booleanValue" \in DOMAIN v THEN Ok("Boolean")
    ELSE IF "integerValue" \in DOMAIN v THEN Ok("Integer")
    ELSE IF "doubleValue" \in DOMAIN v THEN Ok("Double")
    ELSE IF "geoPointValue" \in DOMAIN v THEN Ok("GeoPoint")
    ELSE IF "arrayValue" \in DOMAIN v THEN Ok("Array")
    ELSE IF "blobValue" \in DOMAIN v THEN Ok("Blob")
    ELSE Throw(UnknownType)

\* valueType with the fault of reporting an integer as a double
valueTypeIntegerAsDouble(v) ==
    IF "timestampValue" \in DOMAIN v THEN Ok("Timestamp")
    ELSE IF "stringValue" \in DOMAIN v THEN Ok("String")
    ELSE IF "keyValue" \in DOMAIN v THEN Ok("Key")
    ELSE IF "nullValue" \in DOMAIN v THEN Ok("Null")
    ELSE IF "booleanValue" \in DOMAIN v THEN Ok("Boolean")
    ELSE IF "integerValue" \in DOMAIN v THEN Ok("Double")
    ELSE IF "doubleValue" \in DOMAIN v THEN Ok("Double")
    ELSE IF "geoPointValue" \in DOMAIN v THEN Ok("GeoPoint")
    ELSE IF "arrayValue" \in DOMAIN v THEN Ok("Array")
    ELSE IF "blobValue" \in DOMAIN v THEN Ok("Blob")
    ELSE IF "entityValue" \in DOMAIN v THEN Ok("Entity")
    ELSE Throw(UnknownType)

\* export function valueType(v)
valueType(v) ==
    IF "timestampValue" \in DOMAIN v THEN Ok("Timestamp")
    ELSE IF "stringValue" \in DOMAIN v THEN Ok("String")
    ELSE IF "keyValue" \in DOMAIN v THEN Ok("Key")
    ELSE IF "nullValue" \in DOMAIN v THEN Ok("Null")
    ELSE IF "booleanValue" \in DOMAIN v THEN Ok("Boolean")
    ELSE IF "integerValue" \in DOMAIN v THEN Ok("Integer")
    ELSE IF "doubleValue" \in DOMAIN v THEN Ok("Double")
    ELSE IF "geoPointValue" \in DOMAIN v THEN Ok("GeoPoint")
    ELSE IF "arrayValue" \in DOMAIN v THEN Ok("Array")
    ELSE IF "blobValue" \in DOMAIN v THEN Ok("Blob")
    ELSE IF "entityValue" \in DOMAIN v THEN Ok("Entity")
    ELSE Throw(UnknownType)

\* What a text that cannot be read as the type asked for is refused with
ValidationError == <<"V","a","l","i","d","a","t","i","o","n","E","r","r","o","r">>

\* The namespace of a key; none is the empty text
keyNamespace(key) ==
    IF "namespaceId" \in DOMAIN key.partitionId
    THEN key.partitionId.namespaceId ELSE <<>>

\* The key string of the edit value: the project id, the namespace when it
\* is not the one of the context, and the path, its segments tagged
keyEditText(key, project, namespace) ==
    key.partitionId.projectId \o <<":">>
    \o (IF keyNamespace(key) = namespace THEN <<>>
        ELSE keyNamespace(key) \o <<":">>)
    \o join([i \in 1..Len(key.path) |-> segmentToString(key.path[i])], <<"/">>)

\* Where the tag of a segment's text stands, 0 when it has none
tagAt(text) ==
    IF \A k \in 1..Len(text) : text[k] \notin {"#", "'"} THEN 0
    ELSE Min({k \in 1..Len(text) : text[k] \in {"#", "'"}})

\* A segment read from its text, once the place of its tag is known
segmentTagged(text, at) ==
    IF at <= 1 \/ at = Len(text) THEN Throw(ValidationError)
    ELSE IF text[at] = "'"
    THEN Ok([kind |-> SubSeq(text, 1, at - 1),
             name |-> SubSeq(text, at + 1, Len(text))])
    ELSE IF allDigits(SubSeq(text, at + 1, Len(text)))
    THEN Ok([kind |-> SubSeq(text, 1, at - 1),
             id |-> SubSeq(text, at + 1, Len(text))])
    ELSE Throw(ValidationError)

segmentFromString(text) == segmentTagged(text, tagAt(text))

\* The partition of a key read with this project and namespace
partitionOf(projectId, namespaceId) ==
    IF namespaceId = <<>> THEN [projectId |-> projectId]
    ELSE [projectId |-> projectId, namespaceId |-> namespaceId]

\* A key read from its parts: the project, the namespace and the path
keyOfParts(projectId, namespaceId, path) ==
    IF ~path.ok THEN path
    ELSE Ok([keyValue |-> [partitionId |-> partitionOf(projectId, namespaceId),
                           path |-> path.value]])

\* The path read from its text
pathFromString(text) ==
    mapped([i \in 1..Len(split(text, "/")) |->
               segmentFromString(split(text, "/")[i])])

\* The key read from the parts of its key string between the colons: a
\* string without a namespace stands for a key in the namespace of the
\* context
keyFromParts(parts, namespace) ==
    IF Len(parts) = 2
    THEN keyOfParts(parts[1], namespace, pathFromString(parts[2]))
    ELSE IF Len(parts) = 3
    THEN keyOfParts(parts[1], parts[2], pathFromString(parts[3]))
    ELSE Throw(ValidationError)

keyFromEditText(text, project, namespace) ==
    keyFromParts(split(text, ":"), namespace)

\* "lat,lon", a coordinate that is absent left out
geoPointEditText(point) ==
    (IF point.hasLatitude THEN point.latitude ELSE <<>>)
    \o <<",">>
    \o (IF point.hasLongitude THEN point.longitude ELSE <<>>)

\* The geo point of two coordinates read; an empty piece is an absent one
geoPointOf(latRaw, latitude, lngRaw, longitude) ==
    IF (latRaw # <<>> /\ ~latitude.finite) \/ (lngRaw # <<>> /\ ~longitude.finite)
    THEN Throw(ValidationError)
    ELSE Ok([geoPointValue |->
               [hasLatitude |-> latRaw # <<>>,
                latitude |-> IF latRaw # <<>> THEN latitude.text ELSE <<>>,
                hasLongitude |-> lngRaw # <<>>,
                longitude |-> IF lngRaw # <<>> THEN longitude.text ELSE <<>>]])

geoPointFromPieces(pieces) ==
    IF Len(pieces) # 2 THEN Throw(ValidationError)
    ELSE geoPointOf(pieces[1], Number(pieces[1]), pieces[2], Number(pieces[2]))

geoPointFromEditText(text) == geoPointFromPieces(trimEach(split(text, ",")))

doubleFromNumber(parsed) ==
    IF ~parsed.finite THEN Throw(ValidationError)
    ELSE Ok([doubleValue |-> parsed.text])

\* toEditString: the text of a value that is no array
editText(v, project, namespace) ==
    IF "timestampValue" \in DOMAIN v THEN v.timestampValue
    ELSE IF "stringValue" \in DOMAIN v THEN v.stringValue
    ELSE IF "keyValue" \in DOMAIN v THEN keyEditText(v.keyValue, project, namespace)
    ELSE IF "nullValue" \in DOMAIN v THEN <<"n","u","l","l">>
    ELSE IF "booleanValue" \in DOMAIN v
    THEN (IF v.booleanValue THEN <<"t","r","u","e">> ELSE <<"f","a","l","s","e">>)
    ELSE IF "integerValue" \in DOMAIN v THEN v.integerValue
    ELSE IF "doubleValue" \in DOMAIN v THEN v.doubleValue
    ELSE IF "geoPointValue" \in DOMAIN v THEN geoPointEditText(v.geoPointValue)
    ELSE IF "blobValue" \in DOMAIN v THEN v.blobValue
    ELSE <<>>

\* The edit value of a value that is no array: its type and its text
scalarToEditValue(v, type, project, namespace) ==
    [type |-> type.value, text |-> editText(v, project, namespace)]

\* The edit value of an array: those of its elements, in order, when it
\* has any
arrayToEditValue(array, project, namespace) ==
    [type |-> "Array",
     hasValues |-> array.hasValues,
     elements |-> [i \in 1..Len(array.values) |->
                      scalarToEditValue(array.values[i], valueType(array.values[i]),
                                        project, namespace)]]

valueToEditValueTyped(v, type, project, namespace) ==
    IF ~type.ok THEN type
    ELSE IF type.value = "Array"
    THEN Ok(arrayToEditValue(v.arrayValue, project, namespace))
    ELSE Ok(scalarToEditValue(v, type, project, namespace))

\* valueToEditValue(value, project, namespace)
valueToEditValue(v, project, namespace) ==
    valueToEditValueTyped(v, valueType(v), project, namespace)

\* fromEditString: the value of an edit value that is no array
scalarFromEditValue(e, project, namespace) ==
    CASE e.type = "String" -> Ok([stringValue |-> e.text])
      [] e.type = "Integer" ->
            IF isIntegerText(e.text) THEN Ok([integerValue |-> e.text])
            ELSE Throw(ValidationError)
      [] e.type = "Double" -> doubleFromNumber(Number(e.text))
      [] e.type = "Boolean" ->
            IF e.text = <<"t","r","u","e">> THEN Ok([booleanValue |-> TRUE])
            ELSE IF e.text = <<"f","a","l","s","e">> THEN Ok([booleanValue |-> FALSE])
            ELSE Throw(ValidationError)
      [] e.type = "Null" -> Ok([nullValue |-> "null"])
      [] e.type = "Timestamp" -> Ok([timestampValue |-> e.text])
      [] e.type = "Blob" -> Ok([blobValue |-> e.text])
      [] e.type = "GeoPoint" -> geoPointFromEditText(e.text)
      [] e.type = "Key" -> keyFromEditText(e.text, project, namespace)
      [] OTHER -> Throw(ValidationError)

arrayOfValues(e, values) ==
    IF ~values.ok THEN values
    ELSE Ok([arrayValue |-> [hasValues |-> e.hasValues, values |-> values.value]])

\* valueFromEditValue(editValue, project, namespace)
valueFromEditValue(e, project, namespace) ==
    IF e.type = "Array"
    THEN arrayOfValues(e, mapped([i \in 1..Len(e.elements) |->
                          scalarFromEditValue(e.elements[i], project, namespace)]))
    ELSE scalarFromEditValue(e, project, namespace)

\* The project and namespace the page may be in; no namespace is the
\* empty text
Projects == { <<"p","r","o","j","e","c","t">>, <<"o","t","h","e","r">> }
Namespaces == { <<>>, <<"n","s">> }

EntityKeyPath == << [kind |-> <<"K","i","n","d">>, name |-> <<"E","n","t","i","t","y">>] >>
ChildKeyPath == << [kind |-> <<"K","i","n","d">>, id |-> <<"7">>], [kind |-> <<"S","u","b">>, name |-> <<"a"," ","b">>] >>

\* The values of properties.test.ts that are no arrays, and beside them a
\* string that reads as an integer, one that holds a comma, an empty one,
\* a negative integer, false, and keys of another project, with a
\* namespace and with a longer path
ScalarValues ==
    { [stringValue |-> <<"t","e","s","t","\n","s","t","r","i","n","g">>],
      [stringValue |-> <<"4","2">>],
      [stringValue |-> <<"V","a","l","u","e"," ","1",","," ","V","a","l","u","e"," ","2">>],
      [stringValue |-> <<>>],
      [timestampValue |-> <<"2","0","2","1","-","0","2","-","1","6","T","1","8",":","3","3",":","0","9",".","3","1","4","5","7","3","4","Z">>],
      [timestampValue |-> <<"2","0","2","1","-","0","2","-","1","6","T","1","8",":","3","3",":","0","9",".","3","1","Z">>],
      [blobValue |-> <<"S","G","V","s","b","G","8","K">>],
      [geoPointValue |-> [hasLatitude |-> TRUE, latitude |-> <<"5","0",".","8","7","9","8">>,
                          hasLongitude |-> TRUE, longitude |-> <<"4",".","7","0","0","5">>]],
      [geoPointValue |-> [hasLatitude |-> FALSE, latitude |-> <<>>,
                          hasLongitude |-> TRUE, longitude |-> <<"4",".","7","0","0","5">>]],
      [geoPointValue |-> [hasLatitude |-> TRUE, latitude |-> <<"4",".","7","0","0","5">>,
                          hasLongitude |-> FALSE, longitude |-> <<>>]],
      [geoPointValue |-> [hasLatitude |-> FALSE, latitude |-> <<>>,
                          hasLongitude |-> FALSE, longitude |-> <<>>]],
      [nullValue |-> "null"],
      [booleanValue |-> TRUE],
      [booleanValue |-> FALSE],
      [integerValue |-> <<"4","2">>],
      [integerValue |-> <<"-","7">>],
      [doubleValue |-> <<"4",".","2">>],
      [doubleValue |-> <<"-","0",".","5">>],
      [keyValue |-> [partitionId |-> [projectId |-> <<"p","r","o","j","e","c","t">>],
                     path |-> EntityKeyPath]],
      [keyValue |-> [partitionId |-> [projectId |-> <<"o","t","h","e","r">>],
                     path |-> ChildKeyPath]],
      [keyValue |-> [partitionId |-> [projectId |-> <<"p","r","o","j","e","c","t">>,
                                      namespaceId |-> <<"n","s">>],
                     path |-> EntityKeyPath]] }

\* The values an array of the model holds
ElementValues ==
    { [stringValue |-> <<"V","a","l","u","e"," ","1">>], [stringValue |-> <<"4","2">>],
      [integerValue |-> <<"4","2">>],
      [geoPointValue |-> [hasLatitude |-> FALSE, latitude |-> <<>>,
                          hasLongitude |-> FALSE, longitude |-> <<>>]] }

\* The most values of a drawn array.
MaxArrayLen == 2

\* {arrayValue: {}}, the arrays of up to MaxArrayLen values, and the array
\* of properties.test.ts
TestArray ==
    [arrayValue |-> [hasValues |-> TRUE,
                     values |-> << [stringValue |-> <<"V","a","l","u","e"," ","1">>],
                                   [stringValue |-> <<"V","a","l","u","e"," ","2">>],
                                   [integerValue |-> <<"4","2">>] >>]]

ArrayValues ==
    { [arrayValue |-> [hasValues |-> FALSE, values |-> <<>>]], TestArray }
    \cup { [arrayValue |-> [hasValues |-> TRUE, values |-> values]] :
             values \in UNION { [1..n -> ElementValues] : n \in 0..MaxArrayLen } }

InitEdit ==
    /\ InitBuilder
    /\ InitJoinIdle
    /\ call = "none"
    /\ returned = Ok(<<>>)
    /\ argument \in { [value |-> v, project |-> p, namespace |-> n] :
                        v \in ScalarValues \cup ArrayValues,
                        p \in Projects, n \in Namespaces }

\* valueToEditValue(t, project, namespace) is called
callValueToEditValue ==
    /\ call = "none"
    /\ call' = "valueToEditValue"
    /\ returned' = valueToEditValue(argument.value, argument.project,
                                    argument.namespace)
    /\ UNCHANGED <<argument, builderVars, joinVars>>
    /\ UNCHANGED pageVars

\* valueFromEditValue is called with the edit value returned
callValueFromEditValue ==
    /\ call = "valueToEditValue"
    /\ returned.ok
    /\ call' = "valueFromEditValue"
    /\ returned' = valueFromEditValue(returned.value, argument.project,
                                      argument.namespace)
    /\ UNCHANGED <<argument, builderVars, joinVars>>
    /\ UNCHANGED pageVars

NextEdit ==
    \/ callValueToEditValue
    \/ callValueFromEditValue

SpecEdit == InitEdit /\ [][NextEdit]_vars

(***************************************************************************)
(* What the properties below are stated with                               *)
(***************************************************************************)
\* A text with a character that is not white space
nonBlank(text) == \E i \in 1..Len(text) : text[i] \notin WhiteSpace

\* The positions of the clauses that take part in a query
activeAt(clauses) == {i \in 1..Len(clauses) : nonBlank(clauses[i].field)}

\* ... split into the IN clauses and the others
inAt(clauses) == {i \in activeAt(clauses) : clauses[i].operator = "IN"}
fixedAt(clauses) == {i \in activeAt(clauses) : clauses[i].operator # "IN"}

\* The comma-split values of the clause at position i
valuesAt(clauses, i) == splitInValues(clauses[i].value)

\* k1 * k2 * ... over the IN clauses at the positions `at`
RECURSIVE product(_, _)
product(clauses, at) ==
    IF at = {} THEN 1
    ELSE Len(valuesAt(clauses, Min(at))) * product(clauses, at \ {Min(at)})

\* The comma-split values of the IN clauses, by position
inValues(clauses) == [i \in inAt(clauses) |-> valuesAt(clauses, i)]

\* The choices of one value for each IN clause: one of vals[i] for each i
RECURSIVE choices(_)
choices(vals) ==
    IF DOMAIN vals = {} THEN {<<>>}
    ELSE { (Min(DOMAIN vals) :> v) @@ ch :
             v \in 1..Len(vals[Min(DOMAIN vals)]),
             ch \in choices([i \in DOMAIN vals \ {Min(DOMAIN vals)} |-> vals[i]]) }

\* The clause bound with "=" to a value
bound(clause, value) == [clause EXCEPT !.operator = "=", !.value = value]

\* The elements of s at the positions `at`, in the order of s
RECURSIVE pick(_, _)
pick(s, at) ==
    IF at = {} THEN <<>> ELSE <<s[Min(at)]>> \o pick(s, at \ {Min(at)})

\* The pieces written one after the other with sep between them
RECURSIVE joinedBy(_, _)
joinedBy(pieces, sep) ==
    IF Len(pieces) = 0 THEN <<>>
    ELSE IF Len(pieces) = 1 THEN pieces[1]
    ELSE pieces[1] \o sep \o joinedBy(Tail(pieces), sep)

\* The query text of a kind, predicates and an order
queryOf(kindName, predicates, order, direction) ==
    <<"S","E","L","E","C","T"," ","*"," ","F","R","O","M"," ">> \o kindName
    \o (IF Len(predicates) >= 1
        THEN <<" ","W","H","E","R","E"," ">> \o joinedBy(predicates, <<" ","A","N","D"," ">>)
        ELSE <<>>)
    \o (IF nonBlank(order)
        THEN <<" ","O","R","D","E","R"," ","B","Y"," ">> \o order \o <<" ">>
             \o (IF direction = "DESC" THEN <<"D","E","S","C">> ELSE <<"A","S","C">>)
        ELSE <<>>)

\* The renderings of the clauses, each as buildWhereClause gives it
renderings(clauses) == [i \in 1..Len(clauses) |-> buildWhereClause(clauses[i])]

\* The active clauses in the order they stand in the source list, each IN
\* clause bound in place to its value chosen by ch
inPlace(clauses, vals, ch) ==
    pick([i \in 1..Len(clauses) |->
             IF i \in DOMAIN vals THEN bound(clauses[i], vals[i][ch[i]])
             ELSE clauses[i]],
         activeAt(clauses))

\* The other clauses in source order, then the IN clauses in source order,
\* each bound to its value chosen by ch
fixedThenBound(clauses, vals, ch) ==
    pick(clauses, fixedAt(clauses))
    \o pick([i \in 1..Len(clauses) |->
                IF i \in DOMAIN vals THEN bound(clauses[i], vals[i][ch[i]])
                ELSE clauses[i]],
            DOMAIN vals)

\* sub occurs in text
contains(text, sub) ==
    \E k \in 1..(Len(text) - Len(sub) + 1) :
        SubSeq(text, k, k + Len(sub) - 1) = sub

\* A run of the current state has something to refuse
runRefused ==
    \/ kind = <<>>
    \/ ~expandInClauses(whereClauses).ok
    \/ \E i \in 1..Len(expandInClauses(whereClauses).value) :
        ~buildQuery(kind, expandInClauses(whereClauses).value[i],
                    orderField, orderDirection).ok

(***************************************************************************)
(* C1.  A run is all or nothing: when the kind is missing, or the          *)
(* expansion fails, or any variant fails to build, runQuery leaves         *)
(* builtQueries as it was and sets queryError; otherwise it issues the     *)
(* query of every variant and clears queryError.                           *)
(***************************************************************************)
C1_RunIsAllOrNothing ==
    [][call' = "runQuery" =>
        IF runRefused
        THEN builtQueries' = builtQueries /\ ~queryError'.isNull
        ELSE /\ queryError'.isNull
             /\ Len(builtQueries') = Len(expandInClauses(whereClauses).value)
             /\ \A i \in 1..Len(builtQueries') :
                 builtQueries'[i] =
                     buildQuery(kind, expandInClauses(whereClauses).value[i],
                                orderField, orderDirection).value]_vars

\* A run refused at its second variant, after the first was built, with a
\* query of an earlier run still issued
C1_Witness ==
    /\ call = "runQuery"
    /\ ~queryError.isNull
    /\ builtQueries = <<EarlierQuery>>
    /\ expandInClauses(whereClauses).ok
    /\ Len(expandInClauses(whereClauses).value) >= 2
    /\ buildQuery(kind, expandInClauses(whereClauses).value[1],
                  orderField, orderDirection).ok
    /\ ~buildQuery(kind, expandInClauses(whereClauses).value[2],
                   orderField, orderDirection).ok

(***************************************************************************)
(* C2.  When every IN clause has a value and there are at most             *)
(* MaxCombinations combinations, expandInClauses returns k1 * k2 * ...     *)
(* combinations; each holds exactly the other active clauses and, for      *)
(* every IN clause, one "=" clause of the same id, field and type bound to *)
(* one of its values; and every choice of values is one of them.           *)
(***************************************************************************)
C2_Combinations ==
    call = "expandInClauses"
    => LET vals == inValues(whereClauses)
           count == product(whereClauses, inAt(whereClauses))
       IN  ((\A i \in DOMAIN vals : Len(vals[i]) >= 1) /\ count <= MaxCombinations)
           => /\ returned.ok
              /\ Len(returned.value) = count
              /\ \A n \in 1..Len(returned.value) :
                  /\ Len(returned.value[n]) = Cardinality(activeAt(whereClauses))
                  /\ \A i \in fixedAt(whereClauses) :
                      \E j \in 1..Len(returned.value[n]) :
                          returned.value[n][j] = whereClauses[i]
                  /\ \A i \in DOMAIN vals :
                      \E j \in 1..Len(returned.value[n]) :
                      \E v \in 1..Len(vals[i]) :
                          returned.value[n][j] =
                              [whereClauses[i] EXCEPT !.operator = "=",
                                                      !.value = vals[i][v]]
              /\ \A ch \in choices(vals) :
                  \E n \in 1..Len(returned.value) :
                      \A i \in DOMAIN vals :
                          \E j \in 1..Len(returned.value[n]) :
                              returned.value[n][j] =
                                  bound(whereClauses[i], vals[i][ch[i]])

\* Two IN clauses of two values each and four combinations
C2_Witness ==
    /\ call = "expandInClauses"
    /\ Cardinality(inAt(whereClauses)) = 2
    /\ \A i \in inAt(whereClauses) : Len(valuesAt(whereClauses, i)) = 2
    /\ returned.ok
    /\ Len(returned.value) = 4

(***************************************************************************)
(* C3.  expandInClauses throws the too-many-combinations error exactly     *)
(* when k1 * k2 * ... is greater than 50: with 50 it returns all 50, with  *)
(* 51 or more it returns nothing.                                          *)
(***************************************************************************)
C3_CapAtFifty ==
    call = "expandInClauses"
    => LET count == product(whereClauses, inAt(whereClauses))
       IN  /\ (returned = Throw(errTooMany)) <=> count > 50
           /\ count = 50 => returned.ok /\ Len(returned.value) = 50
           /\ count >= 51 => ~returned.ok /\ returned.value = <<>>

\* Fifty-one combinations refused
C3_Witness ==
    /\ call = "expandInClauses"
    /\ product(whereClauses, inAt(whereClauses)) = 51
    /\ returned = Throw(errTooMany)

(***************************************************************************)
(* C4, as stated.  Every query a run issues writes its predicates in the   *)
(* order of their clauses in the source list, whatever the mix of IN and   *)
(* other clauses.                                                          *)
(***************************************************************************)
C4_SourceOrder ==
    (call = "runQuery" /\ queryError.isNull)
    => LET vals == inValues(whereClauses)
           inSourceOrder ==
               { queryOf(kind,
                         valuesOf(renderings(inPlace(whereClauses, vals, ch))),
                         orderField, orderDirection) : ch \in choices(vals) }
       IN  \A q \in 1..Len(builtQueries) : builtQueries[q] \in inSourceOrder

(***************************************************************************)
(* C4, amended.  Every query a run issues writes first the predicates of   *)
(* the clauses that are not IN clauses, in source order, and then those of *)
(* the IN clauses, in source order.                                        *)
(***************************************************************************)
C4_FixedThenInOrder ==
    (call = "runQuery" /\ queryError.isNull)
    => LET vals == inValues(whereClauses)
           fixedFirst ==
               { queryOf(kind,
                         valuesOf(renderings(fixedThenBound(whereClauses, vals, ch))),
                         orderField, orderDirection) : ch \in choices(vals) }
       IN  \A q \in 1..Len(builtQueries) : builtQueries[q] \in fixedFirst

\* An IN clause of two values before a comparison, and their two queries
C4_Witness ==
    /\ call = "runQuery"
    /\ queryError.isNull
    /\ Len(whereClauses) = 2
    /\ inAt(whereClauses) = {1}
    /\ fixedAt(whereClauses) = {2}
    /\ whereClauses[2].operator = ">"
    /\ Len(builtQueries) = 2

(***************************************************************************)
(* C5.  buildQuery returns SELECT * FROM <kind>, then WHERE and the        *)
(* renderings of the clauses with a non-blank field joined by AND exactly  *)
(* when there is such a clause, then ORDER BY <orderField> <direction>     *)
(* exactly when orderField is not blank.  Only those clauses are           *)
(* validated: it throws exactly when one of them fails to render.          *)
(***************************************************************************)
C5_QueryText ==
    call = "buildQuery"
    => /\ IF \A i \in activeAt(whereClauses) : buildWhereClause(whereClauses[i]).ok
          THEN returned =
                 Ok(queryOf(kind,
                        valuesOf(renderings(pick(whereClauses, activeAt(whereClauses)))),
                        orderField, orderDirection))
          ELSE ~returned.ok
       /\ (/\ kind = Person
           /\ whereClauses = <<[id |-> 0, field |-> Age, operator |-> ">",
                                value |-> <<"3","0">>, valueType |-> "integer"]>>
           /\ orderField = Age
           /\ orderDirection = "DESC")
          => returned.value = <<"S","E","L","E","C","T"," ","*"," ","F","R","O","M"," ","P","e","r","s","o","n"," ","W","H","E","R","E"," ","a","g","e"," ",">"," ","3","0"," ","O","R","D","E","R"," ","B","Y"," ","a","g","e"," ","D","E","S","C">>
       /\ (kind = Person /\ whereClauses = <<>> /\ orderField = <<>>)
          => returned.value = <<"S","E","L","E","C","T"," ","*"," ","F","R","O","M"," ","P","e","r","s","o","n">>

\* A clause without a field whose value would not validate, beside one
\* that is rendered
C5_Witness ==
    /\ call = "buildQuery"
    /\ returned.ok
    /\ Len(whereClauses) = 2
    /\ activeAt(whereClauses) = {2}
    /\ ~buildWhereClause(whereClauses[1]).ok
    /\ orderField = Age
    /\ returned.value = <<"S","E","L","E","C","T"," ","*"," ","F","R","O","M"," ","P","e","r","s","o","n"," ","W","H","E","R","E"," ","a","g","e"," ",">"," ","3","0"," ","O","R","D","E","R"," ","B","Y"," ","a","g","e"," ","D","E","S","C">>

(***************************************************************************)
(* C6, as stated.  The built query contains __key__ HAS ANCESTOR <value>   *)
(* for every HAS ANCESTOR clause whose value is a KEY(...) literal,        *)
(* whatever its stored field, the empty field included, and its stored     *)
(* type.                                                                   *)
(***************************************************************************)
C6_AncestorAlwaysWritten ==
    (call = "buildQuery" /\ returned.ok)
    => \A i \in 1..Len(whereClauses) :
        (whereClauses[i].operator = "HAS ANCESTOR"
         /\ whereClauses[i].value = KeyLiteral)
        => contains(returned.value,
                    <<"_","_","k","e","y","_","_"," ","H","A","S"," ","A","N","C","E","S","T","O","R"," ">> \o whereClauses[i].value)

(***************************************************************************)
(* C6, amended.  buildWhereClause renders a HAS ANCESTOR clause whose      *)
(* value is a KEY(...) literal as __key__ HAS ANCESTOR <value>, whatever   *)
(* its stored field and type; the built query contains that predicate when *)
(* the stored field is not blank, and a clause with a blank field adds     *)
(* nothing to the query.                                                   *)
(***************************************************************************)
C6_AncestorWrittenUnlessBlank ==
    (call = "buildQuery" /\ returned.ok)
    => \A i \in 1..Len(whereClauses) :
        (whereClauses[i].operator = "HAS ANCESTOR"
         /\ whereClauses[i].value = KeyLiteral)
        => /\ buildWhereClause(whereClauses[i]) =
                Ok(<<"_","_","k","e","y","_","_"," ","H","A","S"," ","A","N","C","E","S","T","O","R"," ">> \o whereClauses[i].value)
           /\ nonBlank(whereClauses[i].field)
              => contains(returned.value,
                          <<"_","_","k","e","y","_","_"," ","H","A","S"," ","A","N","C","E","S","T","O","R"," ">> \o whereClauses[i].value)
           /\ ~nonBlank(whereClauses[i].field)
              => (contains(returned.value, <<"_","_","k","e","y","_","_"," ","H","A","S"," ","A","N","C","E","S","T","O","R"," ">>)
                  <=> \E j \in activeAt(whereClauses) :
                        whereClauses[j].operator = "HAS ANCESTOR")

\* A HAS ANCESTOR clause stored with the field age and the type string
C6_Witness ==
    /\ call = "buildQuery"
    /\ returned.ok
    /\ \E i \in 1..Len(whereClauses) :
        /\ whereClauses[i].operator = "HAS ANCESTOR"
        /\ whereClauses[i].field = Age
        /\ whereClauses[i].valueType = "string"
        /\ whereClauses[i].value = KeyLiteral
    /\ contains(returned.value, <<"_","_","k","e","y","_","_"," ","H","A","S"," ","A","N","C","E","S","T","O","R"," ","K","E","Y","(","O","r","g",","," ","'","a","c","m","e","'",")">>)

(***************************************************************************)
(* C7, as stated.  In every state the edits reach, a clause whose operator *)
(* is HAS ANCESTOR has the field __key__ and the type key.                 *)
(***************************************************************************)
C7_AncestorForcesKey ==
    \A i \in 1..Len(whereClauses) :
        whereClauses[i].operator = "HAS ANCESTOR"
        => whereClauses[i].field = KeyField /\ whereClauses[i].valueType = "key"

(***************************************************************************)
(* C8, as stated.  After any adds and removes, within one millisecond or   *)
(* across several, no two clauses of the list have the same id.            *)
(***************************************************************************)
C8_ClauseIdsDistinct ==
    \A i, j \in 1..Len(whereClauses) :
        i # j => whereClauses[i].id # whereClauses[j].id

(***************************************************************************)
(* C9, as stated.  No key occurs twice in the list handed to the batch     *)
(* lookup, whether two rows or two join properties of a row refer to it.   *)
(***************************************************************************)
C9_LookupKeysDistinct ==
    \A i, j \in 1..Len(lookupKeys) :
        i # j => keyToString(lookupKeys[i]) # keyToString(lookupKeys[j])

\* The rows shown, the fetched rows whose key has the canonical string of
\* the key under prop in the row at position i, and the name synthesized
shown == finalEntities(queryResults, joinedEntities, parseJoinProperties(joinProperty))
fetchedFor(i, prop) ==
    {f \in 1..Len(joinedEntities.rows) :
        keyToString(joinedEntities.rows[f].key) =
            keyToString(queryResults.rows[i].properties[prop].keyValue)}
hasProperty(e, name) == "properties" \in DOMAIN e /\ name \in DOMAIN e.properties
wrapped(e) ==
    [entityValue |-> IF "properties" \in DOMAIN e THEN e.properties ELSE <<>>]

(***************************************************************************)
(* C10, as stated.  For each row and each join property whose value is a   *)
(* key, the row shown has <property>_joined exactly when a fetched row has *)
(* the same canonical key string, and its value is then the entity value   *)
(* wrapping that row's properties (once the lookup has delivered).         *)
(***************************************************************************)
C10_JoinedIffFetched ==
    joinedEntities.loaded =>
    \A i \in 1..Len(queryResults.rows) :
    \A k \in 1..Len(parseJoinProperties(joinProperty)) :
        isKeyValue(queryResults.rows[i], parseJoinProperties(joinProperty)[k])
        => /\ hasProperty(shown[i],
                  parseJoinProperties(joinProperty)[k] \o <<"_","j","o","i","n","e","d">>)
              <=> fetchedFor(i, parseJoinProperties(joinProperty)[k]) # {}
           /\ fetchedFor(i, parseJoinProperties(joinProperty)[k]) # {}
              => \E f \in fetchedFor(i, parseJoinProperties(joinProperty)[k]) :
                    shown[i].properties[
                        parseJoinProperties(joinProperty)[k] \o <<"_","j","o","i","n","e","d">>]
                    = wrapped(joinedEntities.rows[f])

(***************************************************************************)
(* C10, amended.  For each row and each join property whose value is a     *)
(* key: when a fetched row has the same canonical key string, the row      *)
(* shown has <property>_joined with the entity value wrapping that row's   *)
(* properties; when none has, the row shown has <property>_joined exactly  *)
(* when the row delivered had it, with the value it had.                   *)
(***************************************************************************)
C10_JoinedWhenFetched ==
    \A i \in 1..Len(queryResults.rows) :
    \A k \in 1..Len(parseJoinProperties(joinProperty)) :
        isKeyValue(queryResults.rows[i], parseJoinProperties(joinProperty)[k])
        => IF fetchedFor(i, parseJoinProperties(joinProperty)[k]) # {}
           THEN /\ hasProperty(shown[i],
                       parseJoinProperties(joinProperty)[k] \o <<"_","j","o","i","n","e","d">>)
                /\ \E f \in fetchedFor(i, parseJoinProperties(joinProperty)[k]) :
                    shown[i].properties[
                        parseJoinProperties(joinProperty)[k] \o <<"_","j","o","i","n","e","d">>]
                    = wrapped(joinedEntities.rows[f])
           ELSE /\ hasProperty(shown[i],
                       parseJoinProperties(joinProperty)[k] \o <<"_","j","o","i","n","e","d">>)
                   <=> hasProperty(queryResults.rows[i],
                           parseJoinProperties(joinProperty)[k] \o <<"_","j","o","i","n","e","d">>)
                /\ hasProperty(shown[i],
                       parseJoinProperties(joinProperty)[k] \o <<"_","j","o","i","n","e","d">>)
                   => shown[i].properties[
                          parseJoinProperties(joinProperty)[k] \o <<"_","j","o","i","n","e","d">>]
                      = queryResults.rows[i].properties[
                          parseJoinProperties(joinProperty)[k] \o <<"_","j","o","i","n","e","d">>]

\* A row whose owner was fetched, beside a row whose owner was not and
\* which was delivered with a property named owner_joined
C10_Witness ==
    /\ queryResults.loaded
    /\ joinedEntities.loaded
    /\ joinProperty = Owner
    /\ Len(queryResults.rows) = 2
    /\ queryResults.rows[1].key = PersonKey("1")
    /\ queryResults.rows[2].key = PersonKey("4")
    /\ joinedEntities.rows = <<AcmeRow>>
    /\ shown[1].properties[OwnerJoined] = [entityValue |-> AcmeRow.properties]
    /\ shown[2] = queryResults.rows[2]

(***************************************************************************)
(* C11, as stated.  Merging never changes or removes a property the row    *)
(* delivered already had: every property of every row delivered is in the  *)
(* row shown with the value it had.                                        *)
(***************************************************************************)
C11_DeliveredPropertiesKept ==
    \A i \in 1..Len(queryResults.rows) :
        "properties" \in DOMAIN queryResults.rows[i]
        => \A name \in DOMAIN queryResults.rows[i].properties :
            /\ hasProperty(shown[i], name)
            /\ shown[i].properties[name] = queryResults.rows[i].properties[name]

(***************************************************************************)
(* What the callback of queryResults.map does to the row it is given.      *)
(* newProperties is a copy of e.properties ({ ...e.properties }) and the   *)
(* row returned after a join is a copy of e ({ ...e, properties }), so     *)
(* every assignment of the loop writes to the copy: `input` is the row     *)
(* given as it is after the callback, `output` the row returned, and       *)
(* `isInput` whether the row returned is the object given.                 *)
(***************************************************************************)
\* mergeRowEffect with the fault of newProperties being e.properties itself
mergeRowEffectAliased(e, joinedRows, joinProperties) ==
    [input |-> mergeRow(e, joinedRows, joinProperties),
     output |-> mergeRow(e, joinedRows, joinProperties),
     isInput |-> resolved(e, joinedRows, joinProperties) = {}]

mergeRowEffect(e, joinedRows, joinProperties) ==
    [input |-> e,
     output |-> mergeRow(e, joinedRows, joinProperties),
     isInput |-> resolved(e, joinedRows, joinProperties) = {}]

\* A join property of the row at position i was fetched
joinedAt(i) ==
    \E k \in 1..Len(parseJoinProperties(joinProperty)) :
        /\ isKeyValue(queryResults.rows[i], parseJoinProperties(joinProperty)[k])
        /\ fetchedFor(i, parseJoinProperties(joinProperty)[k]) # {}

namedIn(text) ==
    {trim(split(text, ",")[k]) : k \in 1..Len(split(text, ","))} \ {<<>>}

\* The rows delivered and names typed where the row holds a key
keysHeld ==
    {at \in (1..Len(queryResults.rows)) \X namedIn(joinProperty) :
        /\ hasProperty(queryResults.rows[at[1]], at[2])
        /\ "keyValue" \in DOMAIN queryResults.rows[at[1]].properties[at[2]]}

(***************************************************************************)
(* C13.  The keys handed to the lookup are exactly the keys held under the *)
(* join properties typed (split at commas, trimmed, empty names dropped)   *)
(* by the rows delivered.  A row without the property, or with a value     *)
(* there that is no key, adds nothing; and nothing is collected while no   *)
(* rows are delivered or no join property is typed.                        *)
(***************************************************************************)
C13_KeysCollected ==
    /\ {lookupKeys[j] : j \in 1..Len(lookupKeys)} =
          {queryResults.rows[at[1]].properties[at[2]].keyValue : at \in keysHeld}
    /\ (~queryResults.loaded \/ Len(queryResults.rows) = 0
        \/ namedIn(joinProperty) = {})
       => lookupKeys = <<>>

\* Two keys of one row collected, beside a row whose owner is a string
C13_Witness ==
    /\ queryResults.loaded
    /\ Len(queryResults.rows) = 2
    /\ queryResults.rows[1].key = PersonKey("2")
    /\ queryResults.rows[2].key = PersonKey("3")
    /\ joinProperty = <<"o","w","n","e","r",","," ","b","o","s","s">>
    /\ lookupKeys = <<AcmeKey, OrgOneKey>>

\* The keys the rows delivered hold under the join properties typed
heldKeys ==
    {queryResults.rows[at[1]].properties[at[2]].keyValue : at \in keysHeld}

(***************************************************************************)
(* C14.  A step of the query page sends at most one request to the batch   *)
(* lookup, however many rows, keys and join properties there are.  The     *)
(* request is sent only once the rows of the query are there, and carries  *)
(* the keys of all rows and all join properties together.  While the       *)
(* query result and the join-property list stay the same no further        *)
(* request is sent, and a key list that is new and not empty is sent.      *)
(***************************************************************************)
C14_OneBatchedLookup ==
    [][ /\ lookupCalls' \in {lookupCalls, lookupCalls + 1}
        /\ lookupCalls' = lookupCalls + 1
           => /\ queryResults'.loaded
              /\ {lookupKeys'[j] : j \in 1..Len(lookupKeys')} = heldKeys'
              /\ heldKeys' # {}
        /\ ( /\ queryResults' = queryResults
             /\ parseJoinProperties(joinProperty') = parseJoinProperties(joinProperty) )
           => lookupCalls' = lookupCalls
        /\ (lookupKeys' # lookupKeys /\ lookupKeys' # <<>>)
           => lookupCalls' = lookupCalls + 1
      ]_vars

\* One request so far, carrying the three keys that two rows hold under
\* two join properties
C14_Witness ==
    /\ lookupCalls = 1
    /\ Len(queryResults.rows) = 2
    /\ Len(parseJoinProperties(joinProperty)) = 2
    /\ Len(lookupKeys) = 3

(***************************************************************************)
(* C15.  When the request sent to the batch lookup has failed, the query   *)
(* page shows that failure as its error message, the way it shows the      *)
(* failure of the query.                                                   *)
(***************************************************************************)
C15_LookupFailureShown ==
    /\ ~error.isNull => errorMessage = error
    /\ ~lookupError.isNull => errorMessage = lookupError

\* The clause the literal builder is applied to
theClause == whereClauses[1]

\* `"` field `"`, the way the messages name a field
named(field) == <<"\"">> \o field \o <<"\"">>

\* The piece of text that starts at position s and ends before the next
\* comma
pieceFrom(text, s) ==
    SubSeq(text, s,
           Min({k \in s..Len(text) : text[k] = ","} \cup {Len(text) + 1}) - 1)

\* A piece without the white space at its two ends
stripped(piece) ==
    LET ink == {k \in 1..Len(piece) : piece[k] \notin WhiteSpace}
    IN  IF ink = {} THEN <<>> ELSE SubSeq(piece, Min(ink), Max(ink))

\* The pieces of text between its commas that are not blank, stripped, in
\* the order of the text
elementsOf(text) ==
    LET starts == {1} \cup {k + 1 : k \in {j \in 1..Len(text) : text[j] = ","}}
        kept == {s \in starts : stripped(pieceFrom(text, s)) # <<>>}
    IN  [i \in 1..Cardinality(kept) |->
            stripped(pieceFrom(text,
                CHOOSE s \in kept : Cardinality({t \in kept : t < s}) = i - 1))]

(***************************************************************************)
(* C16.  A run over a clause list with an IN clause that has a field, at   *)
(* least one value and the declared type null ends in an error that names  *)
(* the field, and issues no query.                                         *)
(***************************************************************************)
C16_InNullRefused ==
    ( /\ call = "runQuery"
      /\ theClause.operator = "IN"
      /\ theClause.valueType = "null"
      /\ nonBlank(theClause.field)
      /\ elementsOf(theClause.value) # <<>> )
    => /\ ~queryError.isNull
       /\ contains(queryError.message, named(theClause.field))
       /\ builtQueries = <<>>

(***************************************************************************)
(* C17.  For an IN clause with a field, a raw text that leaves no element  *)
(* once it is split at commas, the pieces trimmed and the empty ones       *)
(* dropped, is an error of buildWhereClause and of expandInClauses (and    *)
(* so of a run).  When elements remain they are the trimmed pieces that    *)
(* are not empty, in the order of the text: splitInValues returns them,    *)
(* and expandInClauses returns one variant for each, in that order.        *)
(***************************************************************************)
C17_InElements ==
    LET elements == elementsOf(theClause.value)
        isIn == theClause.operator = "IN" /\ nonBlank(theClause.field)
    IN  /\ call = "splitInValues" => returned = Ok(elements)
        /\ (isIn /\ elements = <<>>) =>
            /\ call \in {"buildWhereClause", "expandInClauses"} => ~returned.ok
            /\ call = "runQuery" => ~queryError.isNull /\ builtQueries = <<>>
        /\ (isIn /\ elements # <<>> /\ call = "expandInClauses") =>
            /\ returned.ok
            /\ returned.value =
                  [i \in 1..Len(elements) |-> <<bound(theClause, elements[i])>>]

\* " , ," refused by buildWhereClause
C17_Witness ==
    /\ call = "buildWhereClause"
    /\ theClause.operator = "IN"
    /\ theClause.valueType = "integer"
    /\ theClause.value = <<" ",","," ",",">>
    /\ ~returned.ok
    /\ returned.error = errInEmpty(theClause.field)

\* A literal with every backslash and quote taken back out
RECURSIVE unescaped(_)
unescaped(text) ==
    IF text = <<>> THEN <<>>
    ELSE IF Head(text) = "\\" /\ Len(text) >= 2
    THEN <<text[2]>> \o unescaped(SubSeq(text, 3, Len(text)))
    ELSE <<Head(text)>> \o unescaped(Tail(text))

\* In text no quote stands bare and every backslash either escapes a quote
\* or a backslash
RECURSIVE wellEscaped(_)
wellEscaped(text) ==
    IF text = <<>> THEN TRUE
    ELSE IF Head(text) = "\\"
    THEN /\ Len(text) >= 2
         /\ text[2] \in {"\\", "'"}
         /\ wellEscaped(SubSeq(text, 3, Len(text)))
    ELSE Head(text) # "'" /\ wellEscaped(Tail(text))

(***************************************************************************)
(* C18.  When parseWhereValue refuses the value of a clause (declared      *)
(* integer, double, boolean, timestamp, key, blob, geoPoint, array,        *)
(* entity or raw) the message names the clause's field and no literal is   *)
(* returned; the same holds of buildWhereClause.  A blank value is         *)
(* refused for timestamp, blob, array, entity and raw, and string and      *)
(* null are never refused.                                                 *)
(***************************************************************************)
C18_FailureNamesField ==
    /\ (call \in {"parseWhereValue", "buildWhereClause"} /\ ~returned.ok) =>
        /\ contains(returned.error, named(theClause.field))
        /\ returned.value = <<>>
    /\ call = "parseWhereValue" =>
        /\ theClause.valueType \in {"string", "null"} => returned.ok
        /\ ( /\ theClause.valueType \in
                    {"timestamp", "blob", "array", "entity", "raw",
                     "integer", "boolean", "key", "geoPoint"}
             /\ ~nonBlank(theClause.value) ) => ~returned.ok

\* A geoPoint without a longitude is refused
C18_Witness ==
    /\ call = "parseWhereValue"
    /\ theClause.valueType = "geoPoint"
    /\ theClause.value = <<"1",".","5">>
    /\ theClause.field = Age
    /\ ~returned.ok
    /\ contains(returned.error, <<"\"","a","g","e","\"">>)

(***************************************************************************)
(* C19.  The literal of a clause declared string is the raw text, not      *)
(* trimmed, between single quotes, with a backslash put before every       *)
(* backslash and every single quote and nothing else changed: taking the   *)
(* backslashes out again gives the raw text back, so no two texts have     *)
(* the same literal.  O'Brien\ becomes 'O\'Brien\\'.                       *)
(***************************************************************************)
C19_StringLiteral ==
    (call = "parseWhereValue" /\ theClause.valueType = "string") =>
        LET literal == returned.value
            inner == SubSeq(literal, 2, Len(literal) - 1)
            special == {k \in 1..Len(theClause.value) :
                            theClause.value[k] \in {"\\", "'"}}
        IN  /\ returned.ok
            /\ Len(literal) >= 2
            /\ Head(literal) = "'"
            /\ literal[Len(literal)] = "'"
            /\ wellEscaped(inner)
            /\ unescaped(inner) = theClause.value
            /\ Len(inner) = Len(theClause.value) + Cardinality(special)
            /\ theClause.value = <<"O","'","B","r","i","e","n","\\">> => literal = <<"'","O","\\","'","B","r","i","e","n","\\","\\","'">>

\* O'Brien\ has been made a literal
C19_Witness ==
    /\ call = "parseWhereValue"
    /\ theClause.valueType = "string"
    /\ theClause.value = <<"O","'","B","r","i","e","n","\\">>
    /\ returned = Ok(<<"'","O","\\","'","B","r","i","e","n","\\","\\","'">>)

RECURSIVE gcd(_, _)
gcd(a, b) == IF b = 0 THEN a ELSE gcd(b, a % b)

abs(n) == IF n < 0 THEN 0 - n ELSE n

\* The number n/d, d > 0, in lowest terms
fraction(n, d) ==
    [finite |-> TRUE, num |-> n \div gcd(abs(n), d), den |-> d \div gcd(abs(n), d)]

NotANumber == [finite |-> FALSE, num |-> 0, den |-> 0]
PlusInfinity == [finite |-> FALSE, num |-> 1, den |-> 0]

NoValue == [isNull |-> TRUE, number |-> fraction(0, 1)]
Value(number) == [isNull |-> FALSE, number |-> number]

\* a + b of finite numbers
plus(a, b) == fraction(a.num * b.den + b.num * a.den, a.den * b.den)

\* a / n of a finite number and a count
over(a, n) == fraction(a.num, a.den * n)

\* a < b of finite numbers
lessThan(a, b) == a.num * b.den < b.num * a.den

\* The natural number written by digits
RECURSIVE natural(_)
natural(digits) ==
    IF digits = <<>> THEN 0
    ELSE 10 * natural(SubSeq(digits, 1, Len(digits) - 1))
         + (CHOOSE n \in 0..9 : DigitText[n + 1] = digits[Len(digits)])

RECURSIVE tenTo(_)
tenTo(k) == IF k = 0 THEN 1 ELSE 10 * tenTo(k - 1)

\* The number that String(number) prints as sign, whole part and fraction
numberOfPrinted(negative, parts) ==
    fraction((IF negative THEN 0 - 1 ELSE 1)
             * (natural(parts[1]) * tenTo(IF Len(parts) = 2 THEN Len(parts[2]) ELSE 0)
                + (IF Len(parts) = 2 THEN natural(parts[2]) ELSE 0)),
             tenTo(IF Len(parts) = 2 THEN Len(parts[2]) ELSE 0))

\* The number of Number(text), from what it prints as
numberOfText(parsed) ==
    IF ~parsed.finite THEN NotANumber
    ELSE numberOfPrinted(Head(parsed.text) = "-",
            split(IF Head(parsed.text) = "-" THEN Tail(parsed.text)
                  ELSE parsed.text, "."))

\* getNumberValue with the fault of reading doubles only
getNumberValueOfDoubles(value) ==
    IF "doubleValue" \in DOMAIN value THEN Value(value.doubleValue)
    ELSE NoValue

\* function getNumberValue(value)
getNumberValue(value) ==
    IF "integerValue" \in DOMAIN value
    THEN Value(numberOfText(Number(value.integerValue)))
    ELSE IF "doubleValue" \in DOMAIN value THEN Value(value.doubleValue)
    ELSE NoValue

\* const property = entity.properties?.[field]; if (!property) continue
readsProperty(entity, field) ==
    "properties" \in DOMAIN entity /\ field \in DOMAIN entity.properties

\* numberValue != null && Number.isFinite(numberValue)
isPushed(numberValue) == ~numberValue.isNull /\ numberValue.number.finite

\* The rows whose value the loop pushes
pushedRows(entities, field) ==
    SelectSeq(entities,
        LAMBDA entity :
            /\ readsProperty(entity, field)
            /\ isPushed(getNumberValue(entity.properties[field])))

\* const values: number[], after the loop
numberValues(entities, field) ==
    [i \in 1..Len(pushedRows(entities, field)) |->
        getNumberValue(pushedRows(entities, field)[i].properties[field]).number]

\* values.reduce((a, b) => a + b, 0)
RECURSIVE reduceSum(_)
reduceSum(values) ==
    IF values = <<>> THEN fraction(0, 1)
    ELSE plus(reduceSum(SubSeq(values, 1, Len(values) - 1)), values[Len(values)])

\* Math.min(...values) of finite numbers, at least one
minOf(values) ==
    values[CHOOSE i \in 1..Len(values) :
              \A j \in 1..Len(values) : ~lessThan(values[j], values[i])]

\* Math.max(...values) of finite numbers, at least one
maxOf(values) ==
    values[CHOOSE i \in 1..Len(values) :
              \A j \in 1..Len(values) : ~lessThan(values[i], values[j])]

\* reduced with the fault of summing before looking whether there is a value
reducedSumFirst(aggregationName, values) ==
    IF aggregationName = "sum" THEN Value(reduceSum(values))
    ELSE IF Len(values) = 0 THEN NoValue
    ELSE IF aggregationName = "avg" THEN Value(over(reduceSum(values), Len(values)))
    ELSE IF aggregationName = "min" THEN Value(minOf(values))
    ELSE Value(maxOf(values))

\* calculateAggregation once the loop has collected the values
reduced(aggregationName, values) ==
    IF Len(values) = 0 THEN NoValue
    ELSE IF aggregationName = "sum" THEN Value(reduceSum(values))
    ELSE IF aggregationName = "avg" THEN Value(over(reduceSum(values), Len(values)))
    ELSE IF aggregationName = "min" THEN Value(minOf(values))
    ELSE Value(maxOf(values))

\* function calculateAggregation(aggregation, entities, field); entities is
\* undefined while not loaded
calculateAggregation(aggregationName, entities, field) ==
    IF ~entities.loaded \/ aggregationName = "none" THEN NoValue
    ELSE IF aggregationName = "count" THEN Value(fraction(Len(entities.rows), 1))
    ELSE reduced(aggregationName, numberValues(entities.rows, field))

\* The rows a run can deliver: an integer "10", a double 4.5, a row without
\* the field, a row without properties, a string "7" under the field, a
\* double that is NaN, an integer "-3"
AggregationRows ==
    { [key |-> PersonKey("1"), properties |-> (Age :> [integerValue |-> <<"1","0">>])],
      [key |-> PersonKey("2"), properties |-> (Age :> [doubleValue |-> fraction(9, 2)])],
      [key |-> PersonKey("3"), properties |-> (Name :> [stringValue |-> <<"x">>])],
      [key |-> PersonKey("4")],
      [key |-> PersonKey("5"), properties |-> (Age :> [stringValue |-> <<"7">>])],
      [key |-> PersonKey("6"), properties |-> (Age :> [doubleValue |-> NotANumber])],
      [key |-> PersonKey("7"), properties |-> (Age :> [integerValue |-> <<"-","3">>])] }

\* The most rows of a drawn result.
MaxAggregationRows == 3

AggregationResults ==
    { [loaded |-> FALSE, rows |-> <<>>] }
    \cup { [loaded |-> TRUE, rows |-> rows] :
             rows \in UNION { [1..n -> AggregationRows] : n \in 0..MaxAggregationRows } }

\* The state of the page when the aggregation is computed
InitAggregation ==
    /\ kinds = [loaded |-> TRUE, list |-> <<Person, Org>>]
    /\ kind = Person
    /\ fields = KindSchema(Person)
    /\ whereClauses = <<>>
    /\ orderField = <<>>
    /\ orderDirection = "ASC"
    /\ aggregation \in Aggregation
    /\ aggregationField \in {<<>>, Age}
    /\ builtQueries = <<EarlierQuery>>
    /\ queryError = NoError
    /\ now = 0
    /\ InitJoinIdle
    /\ call = "none"
    /\ returned = Ok(<<>>)
    /\ argument \in AggregationResults

\* const aggregationValue = React.useMemo(() => calculateAggregation(...))
callCalculateAggregation ==
    /\ call = "none"
    /\ call' = "calculateAggregation"
    /\ returned' = Ok(calculateAggregation(aggregation, argument, aggregationField))
    /\ UNCHANGED <<argument, builderVars, joinVars>>
    /\ UNCHANGED pageVars

NextAggregation == callCalculateAggregation

SpecAggregation == InitAggregation /\ [][NextAggregation]_vars

\* The rows of the drawn result that hold a finite integer or double under
\* the aggregation field: those of the keys 1, 2 and 7, under age
numericAt ==
    {i \in 1..Len(argument.rows) :
        /\ aggregationField = Age
        /\ argument.rows[i].key \in {PersonKey("1"), PersonKey("2"), PersonKey("7")}}

\* Twice the number such a row holds: 10, 4.5 and -3
twice(row) ==
    CASE row.key = PersonKey("1") -> 20
      [] row.key = PersonKey("2") -> 9
      [] row.key = PersonKey("7") -> 0 - 6

\* Twice the sum of what the rows at these positions hold
RECURSIVE twiceSum(_)
twiceSum(at) ==
    IF at = {} THEN 0
    ELSE LET i == CHOOSE j \in at : TRUE
         IN  twice(argument.rows[i]) + twiceSum(at \ {i})

\* sum, avg, min or max has been computed over a loaded result
reducing ==
    /\ call = "calculateAggregation"
    /\ aggregation \in {"sum", "avg", "min", "max"}
    /\ argument.loaded

(***************************************************************************)
(* C21.  sum, avg, min and max are computed over exactly the rows whose    *)
(* property of the chosen name is an integer or a double with a finite     *)
(* value, the integer's text read as a number; rows without the property,  *)
(* or with a value of another type there, are passed over and raise no     *)
(* error.  An integer "10", a double 4.5 and a row without the field sum   *)
(* to 14.5.                                                                *)
(***************************************************************************)
C21_NumericRowsReduced ==
    (reducing /\ numericAt # {}) =>
        LET result == returned.value
            x == result.number
            n == Cardinality(numericAt)
        IN  /\ returned.ok
            /\ ~result.isNull
            /\ x.finite
            /\ x.den > 0
            /\ gcd(abs(x.num), x.den) = 1
            /\ aggregation = "sum" => 2 * x.num = twiceSum(numericAt) * x.den
            /\ aggregation = "avg" => 2 * n * x.num = twiceSum(numericAt) * x.den
            /\ aggregation = "min" =>
                /\ \E i \in numericAt : 2 * x.num = twice(argument.rows[i]) * x.den
                /\ \A i \in numericAt : 2 * x.num <= twice(argument.rows[i]) * x.den
            /\ aggregation = "max" =>
                /\ \E i \in numericAt : 2 * x.num = twice(argument.rows[i]) * x.den
                /\ \A i \in numericAt : 2 * x.num >= twice(argument.rows[i]) * x.den

\* The sum of an integer "10", a double 4.5 and a row without age is 14.5
C21_Witness ==
    /\ call = "calculateAggregation"
    /\ aggregation = "sum"
    /\ aggregationField = Age
    /\ Len(argument.rows) = 3
    /\ argument.rows[1].key = PersonKey("1")
    /\ argument.rows[2].key = PersonKey("2")
    /\ argument.rows[3].key = PersonKey("3")
    /\ returned = Ok(Value([finite |-> TRUE, num |-> 29, den |-> 2]))

(***************************************************************************)
(* C22.  When no row holds a number under the chosen field (the result is  *)
(* empty, the field is not chosen, or every row lacks a finite integer or  *)
(* double there), sum, avg, min and max return null: no number, so neither *)
(* 0 nor NaN nor an infinity, and no error.                                *)
(***************************************************************************)
C22_NoNumberNoValue ==
    ( /\ call = "calculateAggregation"
      /\ aggregation \in {"sum", "avg", "min", "max"}
      /\ (~argument.loaded \/ numericAt = {}) )
    => returned = Ok(NoValue)

\* The sum over a string and a NaN is null
C22_Witness ==
    /\ call = "calculateAggregation"
    /\ aggregation = "sum"
    /\ aggregationField = Age
    /\ Len(argument.rows) = 2
    /\ argument.rows[1].key = PersonKey("5")
    /\ argument.rows[2].key = PersonKey("6")
    /\ returned.value.isNull

(***************************************************************************)
(* valueType on its own: the values of the edit model, entity values,      *)
(* each of them also with the excludeFromIndexes flag the API adds, and    *)
(* values that carry no value tag at all                                   *)
(***************************************************************************)
EntityValues ==
    { [entityValue |-> [properties |-> <<>>]],
      [entityValue |-> [properties |-> [name |-> [stringValue |-> <<"x">>]]]],
      [entityValue |-> [properties |-> [owner |-> [nullValue |-> "null"]]]] }

UntaggedValues ==
    { [excludeFromIndexes |-> TRUE], [meaning |-> 18],
      [meaning |-> 18, excludeFromIndexes |-> FALSE] }

TypedValues ==
    LET tagged == ScalarValues \cup ArrayValues \cup EntityValues
    IN  tagged \cup { v @@ [excludeFromIndexes |-> TRUE] : v \in tagged }
               \cup UntaggedValues

InitValueType ==
    /\ InitBuilder
    /\ InitJoinIdle
    /\ call = "none"
    /\ returned = Ok(<<>>)
    /\ argument \in { [value |-> v] : v \in TypedValues }

\* valueType(v) is called
callValueType ==
    /\ call = "none"
    /\ call' = "valueType"
    /\ returned' = valueType(argument.value)
    /\ UNCHANGED <<argument, builderVars, joinVars>>
    /\ UNCHANGED pageVars

NextValueType == callValueType

SpecValueType == InitValueType /\ [][NextValueType]_vars

\* The eleven tags a value is recognised by, and the member of ValueType
\* each stands for
RecognisedTags ==
    { "nullValue", "timestampValue", "stringValue", "keyValue", "booleanValue",
      "integerValue", "doubleValue", "geoPointValue", "arrayValue", "blobValue",
      "entityValue" }

memberOf(tag) ==
    CASE tag = "nullValue" -> "Null"
      [] tag = "timestampValue" -> "Timestamp"
      [] tag = "stringValue" -> "String"
      [] tag = "keyValue" -> "Key"
      [] tag = "booleanValue" -> "Boolean"
      [] tag = "integerValue" -> "Integer"
      [] tag = "doubleValue" -> "Double"
      [] tag = "geoPointValue" -> "GeoPoint"
      [] tag = "arrayValue" -> "Array"
      [] tag = "blobValue" -> "Blob"
      [] tag = "entityValue" -> "Entity"

(***************************************************************************)
(* C23.  valueType returns the member of ValueType that stands for the     *)
(* tag present on the value, for each of the eleven tags, entityValue      *)
(* among them, and raises an error exactly when the value carries none of  *)
(* the eleven.                                                             *)
(***************************************************************************)
C23_ValueTypeByTag ==
    call = "valueType" =>
        LET present == DOMAIN argument.value \cap RecognisedTags
        IN  /\ returned.ok <=> present # {}
            /\ \A tag \in present : returned = Ok(memberOf(tag))
            /\ present = {} => returned = Throw(UnknownType)

\* An entity value has been typed as Entity
C23_Witness ==
    /\ call = "valueType"
    /\ "entityValue" \in DOMAIN argument.value
    /\ returned = Ok("Entity")

(***************************************************************************)
(* The query page's history of run queries and its draft (part_000)        *)
(***************************************************************************)
MAX_QUERY_HISTORY == 100

\* localStorage holds no draft
NoDraft == [stored |-> FALSE, text |-> <<>>]

\* previousQueries.filter((q) => q !== queryToStore)
RECURSIVE without(_, _)
without(previousQueries, q) ==
    IF previousQueries = <<>> THEN <<>>
    ELSE (IF Head(previousQueries) = q THEN <<>> ELSE <<Head(previousQueries)>>)
         \o without(Tail(previousQueries), q)

\* nextQueries.length > MAX_QUERY_HISTORY ? nextQueries.slice(-MAX_QUERY_HISTORY) : nextQueries
compactQueries(nextQueries) ==
    IF Len(nextQueries) > MAX_QUERY_HISTORY
    THEN SubSeq(nextQueries, Len(nextQueries) - MAX_QUERY_HISTORY + 1, Len(nextQueries))
    ELSE nextQueries

\* storeQuery with the fault of not removing the earlier occurrence
storeQueryDuplicating(previousQueries, queryToStore) ==
    IF trim(queryToStore) = <<>> THEN previousQueries
    ELSE compactQueries(Append(previousQueries, queryToStore))

\* useQueryHistory's storeQuery: the history it writes and returns
storeQuery(previousQueries, queryToStore) ==
    IF trim(queryToStore) = <<>> THEN previousQueries
    ELSE compactQueries(Append(without(previousQueries, queryToStore), queryToStore))

\* useQueryHistory's deleteQuery: the history it writes and returns
deleteQuery(previousQueries, queryToDelete) == without(previousQueries, queryToDelete)

\* The effect that stores the query once its results are received
storeEffect(results, current, previousQueries) ==
    IF results.loaded /\ trim(current) # <<>>
    THEN storeQuery(previousQueries, current)
    ELSE previousQueries

\* updateQuery's draft with the fault of saving a blank text too
draftOfAnyText(newQuery) == [stored |-> TRUE, text |-> newQuery]

\* What updateQuery leaves in localStorage under "draftQuery"
draftOf(newQuery) ==
    IF trim(newQuery) # <<>> THEN [stored |-> TRUE, text |-> newQuery] ELSE NoDraft

\* useState(() => draftQuery ? draftQuery : currentQuery)
initialQuery(draft, current) ==
    IF draft.stored /\ draft.text # <<>> THEN draft.text ELSE current

startsWith(s, prefix) ==
    Len(prefix) <= Len(s) /\ SubSeq(s, 1, Len(prefix)) = prefix

\* RecentQueries lists q under the textarea's text
isListed(q, text) == startsWith(toLowerCase(q), toLowerCase(trim(text)))

\* RecentQueries is rendered: nothing is loading and there are no results
recentQueriesShown ==
    /\ ~queryResults.loaded
    /\ (~error.isNull \/ trim(currentQuery) = <<>>)

\* The n-th of the queries a history is filled with
numbered(n) == <<"q">> \o decimal(n)
numberedHistory(n) == [i \in 1..n |-> numbered(i)]

\* The histories the page may find stored, the texts that may be typed and
\* the entries of the list that may be clicked
InitialHistories ==
    { numberedHistory(n) : n \in {0, 2, MAX_QUERY_HISTORY - 1, MAX_QUERY_HISTORY} }
EditTexts == { <<>>, <<" ">>, <<"a">>, <<"b">>, numbered(1) }
ClickedQueries == { <<"a">>, <<"b">>, numbered(1), numbered(MAX_QUERY_HISTORY) }

InitHistory ==
    /\ InitBuilder
    /\ InitNoCall
    /\ queryResults = [loaded |-> FALSE, rows |-> <<>>]
    /\ joinProperty = <<>>
    /\ lookupKeys = <<>>
    /\ joinedEntities = [loaded |-> FALSE, rows |-> <<>>]
    /\ error = NoError
    /\ lookupError = NoError
    /\ lookupCalls = 0
    /\ queries \in InitialHistories
    /\ draftQuery = NoDraft
    /\ query = <<>>
    /\ currentQuery = <<>>
    /\ lastEdit = [made |-> FALSE, text |-> <<>>]
    /\ lastStored = [made |-> FALSE, text |-> <<>>]

\* QueryInput's updateQuery: the textarea's onChange
updateQuery ==
    /\ \E newQuery \in EditTexts :
        /\ query' = newQuery
        /\ draftQuery' = draftOf(newQuery)
        /\ lastEdit' = [made |-> TRUE, text |-> newQuery]
    /\ UNCHANGED <<queries, currentQuery, lastStored, builderVars, joinVars, callVars>>

\* QueryInput's runQuery and the page's runQuery: Run Query is pressed
clickRunQuery ==
    /\ draftQuery' = NoDraft
    /\ lastEdit' = [made |-> FALSE, text |-> <<>>]
    /\ currentQuery' = query
    /\ queryResults' = IF query = currentQuery THEN queryResults
                       ELSE [loaded |-> FALSE, rows |-> <<>>]
    /\ error' = IF query = currentQuery THEN error ELSE NoError
    /\ UNCHANGED <<queries, query, lastStored, joinProperty, lookupKeys,
                   joinedEntities, lookupError, lookupCalls, builderVars, callVars>>

\* useGQLQuery delivers the rows of currentQuery, and the effect stores it
resultsReceived ==
    /\ ~queryResults.loaded
    /\ error.isNull
    /\ queryResults' = [loaded |-> TRUE, rows |-> <<>>]
    /\ queries' = storeEffect(queryResults', currentQuery, queries)
    /\ lastStored' = IF trim(currentQuery) # <<>>
                     THEN [made |-> TRUE, text |-> currentQuery]
                     ELSE lastStored
    /\ UNCHANGED <<draftQuery, query, currentQuery, lastEdit, joinProperty,
                   lookupKeys, joinedEntities, error, lookupError, lookupCalls,
                   builderVars, callVars>>

\* useGQLQuery reports that currentQuery failed
resultsFailed ==
    /\ ~queryResults.loaded
    /\ error.isNull
    /\ error' = Error(QueryFailure)
    /\ UNCHANGED <<queryResults, joinProperty, lookupKeys, joinedEntities,
                   lookupError, lookupCalls, builderVars, callVars, pageVars>>

\* The trash button of a recent query
clickDeleteQuery ==
    /\ recentQueriesShown
    /\ \E q \in ClickedQueries :
        /\ \E i \in 1..Len(queries) : queries[i] = q
        /\ isListed(q, query)
        /\ queries' = deleteQuery(queries, q)
    /\ UNCHANGED <<draftQuery, query, currentQuery, lastEdit, lastStored,
                   builderVars, joinVars, callVars>>

\* A recent query is clicked
onSelectQuery ==
    /\ recentQueriesShown
    /\ \E q \in ClickedQueries :
        /\ \E i \in 1..Len(queries) : queries[i] = q
        /\ isListed(q, query)
        /\ query' = q
    /\ UNCHANGED <<queries, draftQuery, currentQuery, lastEdit, lastStored,
                   builderVars, joinVars, callVars>>

\* The page is loaded again: the state is built from the URL and localStorage
mountPage ==
    /\ query' = initialQuery(draftQuery, currentQuery)
    /\ queryResults' = [loaded |-> FALSE, rows |-> <<>>]
    /\ error' = NoError
    /\ UNCHANGED <<queries, draftQuery, currentQuery, lastEdit, lastStored,
                   joinProperty, lookupKeys, joinedEntities, lookupError,
                   lookupCalls, builderVars, callVars>>

NextHistory ==
    \/ updateQuery
    \/ clickRunQuery
    \/ resultsReceived
    \/ resultsFailed
    \/ clickDeleteQuery
    \/ onSelectQuery
    \/ mountPage

SpecHistory == InitHistory /\ [][NextHistory]_vars

\* No query occurs twice in the list
duplicateFree(list) ==
    \A i, j \in 1..Len(list) : list[i] = list[j] => i = j

occursIn(list, q) == \E i \in 1..Len(list) : list[i] = q

\* The history ends with the query that was stored last
endsWithLastStored ==
    /\ queries # <<>>
    /\ queries[Len(queries)] = lastStored.text

\* A step in which the results of currentQuery arrive, and with them the
\* store: the new history is the old one without the query (which occurs
\* in it once at most), cut to its last 99 entries, and then the query; a
\* blank query leaves the history as it is
storedAsStated ==
    (~queryResults.loaded /\ queryResults'.loaded) =>
        IF nonBlank(currentQuery)
        THEN LET at == {i \in 1..Len(queries) : queries[i] = currentQuery}
                 m == Len(queries) - Cardinality(at)
                 k == IF m > 99 THEN 99 ELSE m
                 kept(n) == IF at = {} \/ n < Min(at) THEN queries[n]
                            ELSE queries[n + 1]
             IN  /\ Cardinality(at) <= 1
                 /\ Len(queries') = k + 1
                 /\ queries'[k + 1] = currentQuery
                 /\ \A n \in 1..k : queries'[n] = kept(m - k + n)
        ELSE queries' = queries

(***************************************************************************)
(* C24, as stated: after any stores and deletions from a history without   *)
(* duplicates, the history has no duplicates, at most 100 entries, and     *)
(* ends with the query stored last.                                        *)
(***************************************************************************)
C24_EndsWithLastStored ==
    /\ duplicateFree(queries)
    /\ Len(queries) <= 100
    /\ lastStored.made => endsWithLastStored

(***************************************************************************)
(* C24, amended.  Storing a query whose results arrived yields the earlier *)
(* history without that query, the query appended as the last entry, and   *)
(* the list cut to its 100 latest entries; a blank query is never stored.  *)
(* So the history has no duplicates, no blank entry and at most 100        *)
(* entries, and it ends with the query stored last for as long as that     *)
(* query has not been deleted from it.                                     *)
(***************************************************************************)
C24_HistoryKept ==
    /\ [][storedAsStated]_vars
    /\ [](/\ duplicateFree(queries)
          /\ Len(queries) <= 100
          /\ \A i \in 1..Len(queries) : nonBlank(queries[i])
          /\ (lastStored.made /\ occursIn(queries, lastStored.text))
                => endsWithLastStored)

\* A full history took in a new query and lost its oldest entry
C24_Witness ==
    /\ Len(queries) = 100
    /\ lastStored = [made |-> TRUE, text |-> <<"a">>]
    /\ queries[100] = <<"a">>
    /\ queries[1] = numbered(2)
    /\ queryResults.loaded

(***************************************************************************)
(* C25.  After any textarea edits and Run Query presses the stored draft   *)
(* is the text of the latest edit made since the last Run Query if there   *)
(* is such an edit and its text is not blank, and is absent otherwise: an  *)
(* edit to a text that is not blank writes it, an edit to a blank text     *)
(* removes the draft, and so does Run Query.                               *)
(***************************************************************************)
C25_DraftIsLatestEdit ==
    /\ draftQuery.stored <=> (lastEdit.made /\ nonBlank(lastEdit.text))
    /\ draftQuery.stored => draftQuery.text = lastEdit.text

\* A query was run and another text typed since: the draft is that text
C25_Witness ==
    /\ currentQuery = <<"b">>
    /\ lastEdit = [made |-> TRUE, text |-> <<"a">>]
    /\ draftQuery = [stored |-> TRUE, text |-> <<"a">>]

InArray == <<"I","N"," ","A","R","R","A","Y","(">>

(***************************************************************************)
(* C26.  No clause list that expandInClauses returns holds a clause with   *)
(* the operator IN: each IN clause with a field is in every list, bound    *)
(* with "=".  So no query that runQuery issues holds an "IN ARRAY("        *)
(* predicate.                                                              *)
(***************************************************************************)
C26_InIssuedAsEquals ==
    /\ (call = "expandInClauses" /\ returned.ok) =>
          \A n \in 1..Len(returned.value) :
              LET combination == returned.value[n]
              IN  /\ \A i \in 1..Len(combination) : combination[i].operator # "IN"
                  /\ \A j \in 1..Len(whereClauses) :
                        (whereClauses[j].operator = "IN"
                            /\ nonBlank(whereClauses[j].field))
                        => \E i \in 1..Len(combination) :
                              /\ combination[i].id = whereClauses[j].id
                              /\ combination[i].operator = "="
    /\ call = "runQuery" =>
          \A n \in 1..Len(builtQueries) : ~contains(builtQueries[n], InArray)

\* A run with two IN clauses has issued four queries
C26_Witness ==
    /\ call = "runQuery"
    /\ queryError.isNull
    /\ Len(whereClauses) = 2
    /\ whereClauses[1].operator = "IN"
    /\ whereClauses[2].operator = "IN"
    /\ Len(builtQueries) = 4
    /\ \A n \in 1..4 : ~contains(builtQueries[n], InArray)

(***************************************************************************)
(* C27.  The merged result has as many rows as the query result, and the   *)
(* row at each position has the key of the query's row at that position.   *)
(* While the lookup has delivered no rows, or no join property is typed,   *)
(* the merged result is the query result itself.                           *)
(***************************************************************************)
C27_RowsAndKeysKept ==
    /\ Len(shown) = Len(queryResults.rows)
    /\ \A i \in 1..Len(queryResults.rows) : shown[i].key = queryResults.rows[i].key
    /\ (~joinedEntities.loaded \/ namedIn(joinProperty) = {})
          => shown = queryResults.rows

\* Two rows are delivered and the lookup fetched the owner of the second
\* only: both rows are shown, under their keys
C27_Witness ==
    /\ queryResults.loaded
    /\ joinedEntities.loaded
    /\ namedIn(joinProperty) # {}
    /\ Len(queryResults.rows) = 2
    /\ queryResults.rows[1].key # queryResults.rows[2].key
    /\ shown[1] = queryResults.rows[1]
    /\ shown[2] # queryResults.rows[2]
    /\ shown[2].key = queryResults.rows[2].key

(***************************************************************************)
(* The row handlers on their own: from clause lists as Add Filter leaves   *)
(* them, two clauses of one id among them, after an earlier run or none    *)
(***************************************************************************)
AddedClauseLists ==
    UNION { [1..n -> {newClause(id) : id \in 0..1}] : n \in 0..MaxClauses }

InitClauses ==
    /\ \E context \in BuildContexts :
        /\ kinds = context.kinds
        /\ kind = context.kind
        /\ fields = context.fields
        /\ orderField = context.orderField
        /\ orderDirection = context.orderDirection
        /\ builtQueries = context.builtQueries
        /\ queryError = context.queryError
    /\ whereClauses \in AddedClauseLists
    /\ aggregation = "none"
    /\ aggregationField = <<>>
    /\ now = 0
    /\ InitJoinIdle
    /\ InitNoCall

NextClauses ==
    \/ clickRemove
    \/ selectField
    \/ selectOperator
    \/ selectValueType
    \/ inputValue

SpecClauses == InitClauses /\ [][NextClauses]_vars

\* The ids of the clauses in the list
idsOf(clauses) == {clauses[i].id : i \in 1..Len(clauses)}

\* A step of updateWhereClause or removeWhereClause, as C28 states it
clausesOfOneIdTouched ==
    /\ builtQueries' = builtQueries
    /\ queryError' = queryError
    /\ Len(whereClauses') = Len(whereClauses) =>
          \E id \in idsOf(whereClauses) :
              \A i \in 1..Len(whereClauses) :
                  /\ whereClauses'[i].id = whereClauses[i].id
                  /\ whereClauses[i].id # id => whereClauses'[i] = whereClauses[i]
    /\ Len(whereClauses') # Len(whereClauses) =>
          \E id \in idsOf(whereClauses) :
              LET keptAt == {i \in 1..Len(whereClauses) : whereClauses[i].id # id}
              IN  /\ Len(whereClauses') = Cardinality(keptAt)
                  /\ \A n \in 1..Len(whereClauses') :
                        \E i \in keptAt :
                            /\ Cardinality({j \in keptAt : j < i}) = n - 1
                            /\ whereClauses'[n] = whereClauses[i]

(***************************************************************************)
(* C28.  updateWhereClause(id, patch) changes only the clauses of that id  *)
(* and removeWhereClause(id) removes only the clauses of that id: every    *)
(* other clause keeps its content and its place among the others.  Neither *)
(* changes the queries already issued or the error shown.                  *)
(***************************************************************************)
C28_OtherClausesUntouched == [][clausesOfOneIdTouched]_vars

\* After an earlier run, the first of two clauses was given a value and the
\* second is as it was added
C28_Witness ==
    /\ builtQueries = <<EarlierQuery>>
    /\ Len(whereClauses) = 2
    /\ whereClauses[1].id = 0
    /\ whereClauses[1].value = <<"7">>
    /\ whereClauses[2] = newClause(1)

(***************************************************************************)
(* The editing machine with a shorter clause list and a clock that stands  *)
(* still: the kinds, the field lists and every select and input of a row   *)
(***************************************************************************)
\* The most clauses this machine adds.
MaxSyncedClauses == 1

\* The Add Filter button, while the list is shorter than that
clickAddFilterBounded ==
    /\ Len(whereClauses) < MaxSyncedClauses
    /\ clickAddFilter

NextFields ==
    \/ KindsLoaded
    \/ selectKind
    \/ FieldsLoaded
    \/ selectOrderField
    \/ selectOrderDirection
    \/ selectAggregation
    \/ selectAggregationField
    \/ clickAddFilterBounded
    \/ clickRemove
    \/ selectField
    \/ selectOperator
    \/ selectValueType
    \/ inputValue

SpecFields == Init /\ [][NextFields]_vars

\* The field list and the numeric field list that have loaded
loadedFields == {fields.allFields[i] : i \in 1..Len(fields.allFields)}
loadedNumericFields == {fields.numericFields[i] : i \in 1..Len(fields.numericFields)}

\* Every field chosen is one the loaded lists offer
fieldsOffered ==
    /\ \A i \in 1..Len(whereClauses) :
          whereClauses[i].field \in {<<>>, KeyField} \cup loadedFields
    /\ orderField \in {<<>>} \cup loadedFields
    /\ aggregationField \in {<<>>} \cup loadedNumericFields

\* A step in which the field list arrives: a clause loses its field at
\* most, and only a field that is neither offered nor "__key__"
onlyFieldsCleared ==
    (~fields.loaded /\ fields'.loaded) =>
        /\ Len(whereClauses') = Len(whereClauses)
        /\ \A i \in 1..Len(whereClauses) :
              LET before == whereClauses[i]
                  after == whereClauses'[i]
                  offered == {fields'.allFields[k] : k \in 1..Len(fields'.allFields)}
              IN  /\ after.id = before.id
                  /\ after.operator = before.operator
                  /\ after.valueType = before.valueType
                  /\ after.value = before.value
                  /\ after.field =
                        IF before.field \in offered \cup {KeyField}
                        THEN before.field ELSE <<>>

(***************************************************************************)
(* C29.  Once the field list of the kind has loaded and the effect has     *)
(* run, the field of every clause is empty, "__key__" or in the field      *)
(* list, the order field is empty or in the field list, and the            *)
(* aggregation field is empty or in the numeric field list.  A clause      *)
(* whose field the effect clears keeps its id, operator, declared type and *)
(* value.                                                                  *)
(***************************************************************************)
C29_FieldsSynchronised ==
    /\ [](fields.loaded => fieldsOffered)
    /\ [][onlyFieldsCleared]_vars

\* The kind was changed to Org with a clause on age: the clause has lost
\* its field and kept the type integer and its value
C29_Witness ==
    /\ kind = Org
    /\ fields.loaded
    /\ Len(whereClauses) >= 1
    /\ whereClauses[1].field = <<>>
    /\ whereClauses[1].valueType = "integer"
    /\ whereClauses[1].value = <<"7">>

(***************************************************************************)
(* C30.  An IN clause with the declared type geoPoint and a field is never *)
(* built: its text is split at the commas before an element is read, so    *)
(* no element holds a comma and each lacks the longitude.  buildWhereClause *)
(* refuses the clause, and a run with it ends in an error and issues no    *)
(* query.                                                                  *)
(***************************************************************************)
C30_GeoPointInRefused ==
    ( /\ theClause.operator = "IN"
      /\ theClause.valueType = "geoPoint"
      /\ nonBlank(theClause.field) )
    => LET elements == elementsOf(theClause.value)
           message == IF elements = <<>> THEN errInEmpty(theClause.field)
                      ELSE errGeoPoint(theClause.field)
       IN  /\ \A i \in 1..Len(elements) : ~contains(elements[i], <<",">>)
           /\ call = "buildWhereClause" => returned = Throw(message)
           /\ call = "expandInClauses" =>
                 (returned.ok <=> elements # <<>>)
           /\ call = "runQuery" =>
                 /\ queryError = Error(message)
                 /\ builtQueries = <<>>

\* The run of age IN "1.5,2", declared geoPoint, is refused
C30_Witness ==
    /\ call = "runQuery"
    /\ theClause.operator = "IN"
    /\ theClause.valueType = "geoPoint"
    /\ theClause.field = Age
    /\ theClause.value = <<"1",".","5",",","2">>
    /\ queryError = Error(errGeoPoint(Age))
    /\ builtQueries = <<>>

====
